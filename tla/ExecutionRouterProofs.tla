------------------------ MODULE ExecutionRouterProofs ------------------------
(***************************************************************************)
(* The safety of the execution router for any registry of lanes, any       *)
(* configuration and every business outcome, also those the model-checked  *)
(* instances leave out.                                                    *)
(***************************************************************************)
EXTENDS ExecutionRouter, FiniteSetTheorems, WellFoundedInduction, TLAPS

-----------------------------------------------------------------------------
(* Types *)

TimeOrNone == Nat \cup {NoTime}
GenOrNone == Nat \cup {NoGen}

AllOutcomes == {"Healthy", "SlowResponded", "SlowRetired", "Failure", "TransportUncertain"}

Business ==
    [attempt : Nat, outGen : Nat, outcome : AllOutcomes \cup {"None"}, failures : Nat,
     slow : Nat, noResponse : Nat, noResponseGen : Nat, slowRetired : Nat,
     slowRetiredGen : Nat]

LaneState ==
    [seen : BOOLEAN, at : Nat, generation : Nat, quarantined : BOOLEAN, busy : BOOLEAN,
     dispatched : TimeOrNone, business : Business, retired : GenOrNone,
     verified : BOOLEAN, fault : BOOLEAN, window : Nat, failed : BOOLEAN, eligible : Int,
     streak : Nat]

Probe == [slot : Fast, generation : Nat, after : Nat, at : Nat]

Verdicts == {"Paused", "Recovering", "Healthy", "Degraded"}

Admission ==
    [lane : [Lanes -> LaneState], dirty : BOOLEAN, next_change : Int,
     probation_busy : BOOLEAN, recovery_required : BOOLEAN, successes : Nat,
     probe : Probe \cup {NoProbe}, pause_until : Int, streak : Nat, window : Nat,
     window_started : Nat, window_lanes : Nat, reset_pending : BOOLEAN,
     state : Verdicts, slots : Nat, adverse : Nat, ended : Nat]

Observations ==
    [at : Nat, generation : Nat, quarantined : BOOLEAN, busy : BOOLEAN, business : Business]

Owner ==
    [alive : BOOLEAN, pc : {"top", "wait", "run"}, occupied : BOOLEAN,
     job : {"None", "place", "refresh"}, jobGen : Nat, tag : Nat, generation : Nat,
     quarantined : BOOLEAN, business : Business]

TypeOK ==
    /\ now \in Nat
    /\ h \in Admission
    /\ rpc \in {"idle", "selecting"}
    /\ resets \in [Lanes -> GenOrNone]
    /\ cell \in [Lanes -> Observations \cup {NoObservation}]
    /\ owner \in [Lanes -> Owner]
    /\ sent \in Nat /\ faults \in Nat
    /\ raced \in BOOLEAN
    /\ good \in Seq(Nat)

-----------------------------------------------------------------------------
(* The inductive invariant: predicates of an admission state r, h or one that   *)
(* refresh_health is about to make h of                                         *)

\* A pending observation is not from the future, and a running request is a place
\* that holds the lane.
Queued ==
    \A i \in Lanes :
        /\ cell[i] # NoObservation => cell[i].at <= now
        /\ owner[i].job = "place" => owner[i].occupied
        /\ owner[i].pc = "run" => owner[i].job = "place"

\* A Healthy outcome, recorded or on its way, is of a generation that answered.
Known(r) ==
    \A i \in Lanes :
        /\ r.lane[i].verified => <<i, r.lane[i].generation>> \in proven
        /\ owner[i].business.outcome = "Healthy" => <<i, owner[i].business.outGen>> \in proven
        /\ cell[i] # NoObservation /\ cell[i].business.outcome = "Healthy" =>
               <<i, cell[i].business.outGen>> \in proven

\* What the router knows of a Fast lane that it holds to be idle is the latest, and
\* so is an unread idle heartbeat that is not from before the last dispatch.
Tracked(r, f) ==
    LET l == r.lane[f] IN
    /\ owner[f].job = "place" => l.busy
    /\ ~l.busy => l.dispatched = NoTime /\ l.business.attempt = owner[f].business.attempt
    /\ cell[f] # NoObservation /\ ~cell[f].busy /\ AfterDispatch(l, cell[f]) =>
           owner[f].job # "place" /\ cell[f].business = owner[f].business

Answered(r) ==
    /\ r.probe # NoProbe
    /\ owner[r.probe.slot].business.attempt > r.probe.after
    /\ owner[r.probe.slot].business.outcome = "Healthy"

\* A probe is the place its lane is busy with, dispatched since the last adverse
\* event and the only request since.
Probing(r) ==
    r.probe # NoProbe =>
        LET f == r.probe.slot IN
        /\ r.lane[f].busy /\ r.lane[f].dispatched = r.probe.at
        /\ owner[f].job = "place" =>
               owner[f].tag = r.adverse /\ owner[f].business.attempt = r.probe.after

Earned(n) == Cardinality({k \in DOMAIN good : good[k] = n})

\* Every success counted, and the one a probe has earned but not reported, is a
\* healthy place dispatched since the last adverse event.
Counted(r) ==
    /\ Earned(r.adverse) >= r.successes + Count(Answered(r))
    /\ ~r.recovery_required => Earned(r.ended) >= max(recovery_successes, 1)

Unraced(r) == ~raced => (\A f \in Fast : Tracked(r, f)) /\ Probing(r) /\ Counted(r)

\* The part of a verdict that refresh computes.
SameVerdict(a, b) ==
    /\ a.state = b.state /\ a.slots = b.slots
    /\ a.recovery_required = b.recovery_required /\ a.successes = b.successes
    /\ a.probe = b.probe /\ a.probation_busy = b.probation_busy

\* A clean cache expires before anything it depends on may change by itself.
Cached(r) ==
    ~r.dirty =>
        /\ \A d \in Deadlines(r, now) : r.next_change <= d
        /\ now < r.next_change => SameVerdict(r, Recompute(r, now))

IInv == TypeOK /\ Queued /\ Known(h) /\ Unraced(h) /\ Cached(h)

-----------------------------------------------------------------------------
(* Pauses: the operators that only take away from what the router counts on *)

\* Leaves are first order unless they cite SMTT (arithmetic, sequences) or PTL.
USE ZenonT(40)

\* p counts on no more than r: the lanes do what they did, nothing is verified or
\* earned that was not, and either nothing adverse happened or all counting restarts.
SameLane(l, m) ==
    /\ l.busy = m.busy /\ l.dispatched = m.dispatched
    /\ l.business = m.business /\ l.generation = m.generation
    /\ l.verified => m.verified

NoBetter(p, r) ==
    /\ \A i \in Lanes : SameLane(p.lane[i], r.lane[i])
    /\ \/ p.adverse = r.adverse /\ p.successes = r.successes /\ p.probe = r.probe
       \/ p.successes = 0 /\ p.probe = NoProbe
    /\ p.ended = r.ended
    /\ r.recovery_required => p.recovery_required

LEMMA NoBetterReflexive == \A r : NoBetter(r, r)
BY DEF NoBetter, SameLane

LEMMA NoBetterTransitive ==
    \A p, q, r : NoBetter(p, q) /\ NoBetter(q, r) => NoBetter(p, r)
<1> SUFFICES ASSUME NEW p, NEW q, NEW r, NoBetter(p, q), NoBetter(q, r)
             PROVE  NoBetter(p, r)
  OBVIOUS
<1>1. \A i \in Lanes : SameLane(p.lane[i], r.lane[i])
  BY DEF NoBetter, SameLane
<1>2. \/ p.adverse = r.adverse /\ p.successes = r.successes /\ p.probe = r.probe
      \/ p.successes = 0 /\ p.probe = NoProbe
  BY DEF NoBetter
<1>3. p.ended = r.ended /\ (r.recovery_required => p.recovery_required)
  BY DEF NoBetter
<1> QED
  BY <1>1, <1>2, <1>3 DEF NoBetter

LEMMA ConstantTypes ==
    /\ stale_after \in Nat /\ failure_cluster_window \in Nat /\ recovery_pause \in Nat
    /\ max_recovery_pause \in Nat /\ recovery_successes \in Nat
    /\ max(recovery_successes, 1) \in Nat
<1>1. /\ stale_after \in Nat /\ failure_cluster_window \in Nat /\ recovery_pause \in Nat
      /\ max_recovery_pause \in Nat /\ recovery_successes \in Nat
  BY AdmissionAssumption
<1> QED
  BY <1>1, SMTT(40) DEF max

LEMMA BackoffType == ASSUME NEW n \in Nat PROVE Backoff(n) \in Int
<1>1. min(n, 3) \in Nat
  BY SMTT(40) DEF min
<1>2. 2^min(n, 3) \in Int
  BY <1>1, SMTT(40)
<1> QED
  BY <1>2, ConstantTypes, SMTT(40) DEF Backoff, min

LEMMA Numbers == 0 \in Nat /\ 0 \in Int /\ Nat \subseteq Int /\ \A n \in Nat : n + 1 \in Nat
BY SMTT(40)

LEMMA ProbeIsNotNoProbe == \A p \in Probe : p # NoProbe
BY SMTT(40) DEF Probe, NoProbe

LEMMA LaneStates == \A r \in Admission, i \in Lanes : r.lane[i] \in LaneState
BY DEF Admission

LEMMA PauseForRecovery ==
    ASSUME NEW r \in Admission, NEW t \in Nat
    PROVE  /\ pause_for_recovery(r, t) \in Admission
           /\ NoBetter(pause_for_recovery(r, t), r)
           /\ pause_for_recovery(r, t).dirty = TRUE
           /\ pause_for_recovery(r, t).lane = r.lane
<1> DEFINE p == pause_for_recovery(r, t)
<1>1. r.streak + 1 \in Nat /\ r.adverse + 1 \in Nat /\ r.streak \in Nat
  BY Numbers DEF Admission
<1>2. Backoff(r.streak) \in Int
  BY <1>1, BackoffType
<1>3. t + Backoff(r.streak) \in Int
  BY <1>2, SMTT(40)
<1>4. p \in Admission
  BY <1>1, <1>3, Numbers DEF pause_for_recovery, Admission
<1>5. /\ p.lane = r.lane /\ p.dirty = TRUE /\ p.recovery_required = TRUE
      /\ p.successes = 0 /\ p.probe = NoProbe /\ p.ended = r.ended
  BY DEF pause_for_recovery, Admission
<1> HIDE DEF p
<1> QED
  BY <1>4, <1>5 DEF NoBetter, SameLane, p

LEMMA RetireGenerations ==
    ASSUME NEW r \in Admission, NEW t \in Nat
    PROVE  /\ retire_transport_generations(r, t) \in Admission
           /\ NoBetter(retire_transport_generations(r, t), r)
           /\ retire_transport_generations(r, t).dirty = TRUE
<1> DEFINE q == [r EXCEPT !.reset_pending = TRUE,
                   !.lane = [i \in Lanes |-> [r.lane[i] EXCEPT !.retired = r.lane[i].generation,
                                                               !.verified = FALSE]]]
<1>1. ASSUME NEW i \in Lanes
      PROVE  LET l == [r.lane[i] EXCEPT !.retired = r.lane[i].generation,
                                        !.verified = FALSE]
             IN  l \in LaneState /\ SameLane(l, r.lane[i])
  <2> DEFINE m == r.lane[i]
  <2>1. m \in LaneState
    BY LaneStates
  <2> HIDE DEF m
  <2>2. LET l == [m EXCEPT !.retired = m.generation, !.verified = FALSE]
        IN  l \in LaneState /\ SameLane(l, m)
    BY <2>1 DEF LaneState, SameLane, GenOrNone
  <2> QED
    BY <2>2 DEF m
<1>2. q \in Admission
  BY <1>1 DEF Admission
<1>3. /\ q.lane = [i \in Lanes |-> [r.lane[i] EXCEPT !.retired = r.lane[i].generation,
                                                     !.verified = FALSE]]
      /\ q.adverse = r.adverse /\ q.successes = r.successes /\ q.probe = r.probe
      /\ q.ended = r.ended /\ q.recovery_required = r.recovery_required
  BY DEF Admission
<1>4. retire_transport_generations(r, t) = pause_for_recovery(q, t)
  BY DEF retire_transport_generations
<1> HIDE DEF q
<1>5. NoBetter(q, r)
  BY <1>1, <1>3 DEF NoBetter
<1>6. /\ pause_for_recovery(q, t) \in Admission /\ NoBetter(pause_for_recovery(q, t), q)
      /\ pause_for_recovery(q, t).dirty = TRUE
  BY <1>2, PauseForRecovery
<1> QED
  BY <1>4, <1>5, <1>6, NoBetterTransitive

LEMMA NoteFailure ==
    ASSUME NEW r \in Admission, NEW i \in Lanes, NEW t \in Nat
    PROVE  /\ note_failure(r, i, t) \in Admission
           /\ NoBetter(note_failure(r, i, t), r)
           /\ r.dirty => note_failure(r, i, t).dirty
<1> DEFINE opened == IF r.window = 0 \/ t - r.window_started > failure_cluster_window
                     THEN [r EXCEPT !.window = @ + 1, !.window_started = t, !.window_lanes = 0]
                     ELSE r
           noted == IF opened.lane[i].window # opened.window
                    THEN [opened EXCEPT !.lane[i].window = opened.window, !.window_lanes = @ + 1]
                    ELSE opened
           full == [noted EXCEPT !.window_lanes = 3]
<1>1. /\ opened \in Admission /\ opened.lane = r.lane /\ opened.dirty = r.dirty
      /\ opened.adverse = r.adverse /\ opened.successes = r.successes
      /\ opened.probe = r.probe /\ opened.ended = r.ended
      /\ opened.recovery_required = r.recovery_required
  <2>1. r.window + 1 \in Nat
    BY Numbers DEF Admission
  <2>2. CASE opened = r
    BY <2>2
  <2>3. CASE opened = [r EXCEPT !.window = @ + 1, !.window_started = t, !.window_lanes = 0]
    <3> HIDE DEF opened
    <3> QED
      BY <2>1, <2>3, Numbers DEF Admission
  <2> QED
    BY <2>2, <2>3
<1> HIDE DEF opened
<1>2. /\ noted \in Admission /\ NoBetter(noted, opened) /\ noted.dirty = opened.dirty
  <2>1. opened.window_lanes + 1 \in Nat /\ opened.window \in Nat
    BY <1>1, Numbers DEF Admission
  <2>2. CASE noted = opened
    BY <1>1, <2>2, NoBetterReflexive
  <2>3. CASE noted = [opened EXCEPT !.lane[i].window = opened.window, !.window_lanes = @ + 1]
    <3> HIDE DEF noted
    <3> DEFINE l == [opened.lane[i] EXCEPT !.window = opened.window]
    <3>1. opened.lane[i] \in LaneState
      BY <1>1, LaneStates
    <3>2. l \in LaneState /\ SameLane(l, opened.lane[i])
      BY <2>1, <3>1 DEF LaneState, SameLane
    <3>3. /\ noted.lane = [opened.lane EXCEPT ![i] = l] /\ noted.dirty = opened.dirty
          /\ noted.adverse = opened.adverse /\ noted.successes = opened.successes
          /\ noted.probe = opened.probe /\ noted.ended = opened.ended
          /\ noted.recovery_required = opened.recovery_required
      BY <1>1, <2>3 DEF Admission
    <3>4. noted = [opened EXCEPT !.lane = [opened.lane EXCEPT ![i] = l], !.window_lanes = @ + 1]
      BY <1>1, <2>3 DEF Admission
    <3> HIDE DEF l
    <3>5. [opened.lane EXCEPT ![i] = l] \in [Lanes -> LaneState]
      BY <1>1, <3>2 DEF Admission
    <3>6. noted \in Admission
      BY <1>1, <2>1, <3>4, <3>5 DEF Admission
    <3>7. \A j \in Lanes : noted.lane[j] = IF j = i THEN l ELSE opened.lane[j]
      BY <1>1, <3>3 DEF Admission
    <3>8. NoBetter(noted, opened)
      BY <3>2, <3>3, <3>7 DEF NoBetter, SameLane
    <3> QED
      BY <3>3, <3>6, <3>8
  <2> QED
    BY <2>2, <2>3
<1>3. NoBetter(opened, r)
  BY <1>1 DEF NoBetter, SameLane
<1> HIDE DEF noted
<1>4. /\ full \in Admission /\ full.lane = noted.lane /\ full.dirty = noted.dirty
      /\ full.adverse = noted.adverse /\ full.successes = noted.successes
      /\ full.probe = noted.probe /\ full.ended = noted.ended
      /\ full.recovery_required = noted.recovery_required
  <2>1. 3 \in Nat
    BY SMTT(40)
  <2> QED
    BY <1>2, <2>1 DEF Admission
<1>5. NoBetter(full, noted)
  BY <1>4 DEF NoBetter, SameLane
<1>6. note_failure(r, i, t) = IF noted.window_lanes = 2 THEN pause_for_recovery(full, t)
                              ELSE noted
  BY DEF note_failure, opened, noted
<1> HIDE DEF full
<1>7. /\ pause_for_recovery(full, t) \in Admission
      /\ NoBetter(pause_for_recovery(full, t), full)
      /\ pause_for_recovery(full, t).dirty = TRUE
  BY <1>4, PauseForRecovery
<1>8. NoBetter(noted, r) /\ NoBetter(pause_for_recovery(full, t), r)
  BY <1>2, <1>3, <1>5, <1>7, NoBetterTransitive
<1> QED
  BY <1>1, <1>2, <1>6, <1>7, <1>8

-----------------------------------------------------------------------------
(* Natural numbers, in the form that has no operator parameter *)

LEMMA NatMin ==
    ASSUME NEW S, S \subseteq Nat, S # {} PROVE \E n \in S : \A m \in S : n <= m
<1> DEFINE R == OpToRel(<, Nat)
<1>1. IsWellFoundedOn(R, Nat)
  BY NatLessThanWellFounded
<1>2. \A m, n \in Nat : m < n => <<m, n>> \in R
  BY SMTT(40) DEF OpToRel
<1> HIDE DEF R
<1>3. PICK n \in S : \A m \in S : ~ (<<m, n>> \in R)
  BY <1>1, WFMin
<1>4. \A m \in S : ~ (m < n)
  BY <1>2, <1>3
<1>5. \A m \in S : n <= m
  BY <1>4, SMTT(40)
<1> QED
  BY <1>3, <1>5

LEMMA NatInd ==
    ASSUME NEW S, 0 \in S, \A n \in Nat : n \in S => n + 1 \in S PROVE Nat \subseteq S
<1> DEFINE T == {n \in Nat : n \notin S}
<1>1. CASE T # {}
  <2>1. PICK n \in T : \A m \in T : n <= m
    BY <1>1, NatMin
  <2>2. n # 0 /\ n - 1 \in Nat /\ n - 1 \in S
    BY <2>1, SMTT(40)
  <2> QED
    BY <2>1, <2>2, SMTT(40)
<1> QED
  BY <1>1

-----------------------------------------------------------------------------
(* The verdict *)

LEMMA FiniteLanes == IsFiniteSet(Lanes)
<1>1. /\ LaneOrder \in Seq(Lanes)
      /\ {LaneOrder[k] : k \in DOMAIN LaneOrder} = Lanes
  BY RouterAssumption
<1>2. DOMAIN LaneOrder = 1 .. Len(LaneOrder) /\ Len(LaneOrder) \in Nat
  BY <1>1, SMTT(40)
<1>3. IsFiniteSet(DOMAIN LaneOrder)
  BY <1>2, FS_Interval, SMTT(40)
<1>4. LaneOrder \in Surjection(DOMAIN LaneOrder, Lanes)
  BY <1>1, SMTT(40) DEF Surjection
<1> QED
  BY <1>3, <1>4, FS_Surjection

LEMMA EarliestIsFirst ==
    ASSUME NEW T, T \subseteq Nat
    PROVE  Earliest(T) \in Int /\ \A d \in T : Earliest(T) <= d
<1>1. CASE T = {}
  BY <1>1, SMTT(40) DEF Earliest, Never
<1>2. CASE T # {}
  <2>1. \E t \in T : \A u \in T : t <= u
    BY <1>2, NatMin
  <2>2. Earliest(T) = CHOOSE t \in T : \A u \in T : t <= u
    BY <1>2 DEF Earliest
  <2>3. Earliest(T) \in T /\ \A d \in T : Earliest(T) <= d
    BY <2>1, <2>2
  <2> QED
    BY <2>3, Numbers
<1> QED
  BY <1>1, <1>2

\* The parts of Recompute.
Free(r, t) == {i \in ReadyFast(r, t) : ~r.lane[i].busy}
VerifiedFree(r, t) == {i \in Free(r, t) : r.lane[i].verified}
ProbationBusy(r, t) == \E i \in ReadyFast(r, t) : ~r.lane[i].verified /\ r.lane[i].busy
Paused(r, t) == ReadyFast(r, t) = {} \/ EligibleCancel(r, t) = {} \/ t < r.pause_until
Recovering(r, t) == Paused(r, t) \/ r.recovery_required \/ ReadyCancel(r, t) = {}
NextProbe(r, t) == IF Paused(r, t) THEN NoProbe ELSE r.probe
NoneBusy(r) == \A i \in Fast : ~r.lane[i].busy
AllHealthy(r, t) ==
    /\ Fresh(r, Lanes, t) = Lanes /\ ReadyFast(r, t) = Fast
    /\ ReadyCancel(r, t) = Ordinary /\ \A i \in Fast : r.lane[i].verified
State(r, t) ==
    CASE Paused(r, t) -> "Paused" [] ~Paused(r, t) /\ Recovering(r, t) -> "Recovering"
      [] ~Recovering(r, t) /\ AllHealthy(r, t) -> "Healthy" [] OTHER -> "Degraded"
One(b) == IF b THEN 1 ELSE 0
Slots(r, t) ==
    CASE Paused(r, t) -> 0
      [] ~Paused(r, t) /\ Recovering(r, t) ->
           One(Free(r, t) # {} /\ NextProbe(r, t) = NoProbe /\ NoneBusy(r))
      [] ~Recovering(r, t) /\ AllHealthy(r, t) -> Cardinality(Free(r, t))
      [] OTHER -> Cardinality(VerifiedFree(r, t))
                  + One(~ProbationBusy(r, t) /\ Free(r, t) # VerifiedFree(r, t))

LEMMA RecomputeIs ==
    ASSUME NEW r \in Admission, NEW t
    PROVE  Recompute(r, t) =
             [r EXCEPT !.dirty = FALSE, !.next_change = Earliest(Deadlines(r, t)),
                       !.probation_busy = ProbationBusy(r, t),
                       !.recovery_required = Recovering(r, t),
                       !.successes = IF Paused(r, t) THEN 0 ELSE @,
                       !.probe = NextProbe(r, t), !.state = State(r, t),
                       !.slots = Slots(r, t)]
BY DEF Recompute, Free, VerifiedFree, ProbationBusy, Paused, Recovering, NextProbe,
       NoneBusy, AllHealthy, State, One, Slots

LEMMA DeadlinesAreTimes ==
    ASSUME NEW r \in Admission, NEW t \in Nat PROVE Deadlines(r, t) \subseteq Nat
<1>1. r.pause_until \in Int /\ \A i \in Lanes : r.lane[i].at \in Int /\ r.lane[i].eligible \in Int
  BY LaneStates, Numbers DEF Admission, LaneState
<1>2. \A i \in Lanes : r.lane[i].at + stale_after + 1 \in Int
  BY <1>1, ConstantTypes, SMTT(40)
<1>3. ASSUME NEW d \in Deadlines(r, t) PROVE d \in Int /\ d > t
  BY <1>1, <1>2 DEF Deadlines
<1> QED
  BY <1>3, SMTT(40)

LEMMA SlotsType == ASSUME NEW r, NEW t PROVE Slots(r, t) \in Nat
<1>1. Free(r, t) \subseteq Lanes /\ VerifiedFree(r, t) \subseteq Lanes
  BY DEF Free, VerifiedFree, ReadyFast, Fresh, Lanes
<1>2. Cardinality(Free(r, t)) \in Nat /\ Cardinality(VerifiedFree(r, t)) \in Nat
  BY <1>1, FiniteLanes, FS_Subset, FS_CardinalityType
<1>3. \A b : One(b) \in Nat
  BY SMTT(40) DEF One
<1>4. \A b : Cardinality(VerifiedFree(r, t)) + One(b) \in Nat
  BY <1>2, <1>3, SMTT(40)
<1> QED
  BY <1>2, <1>3, <1>4, Numbers DEF Slots

LEMMA RecomputeFields ==
    ASSUME NEW r \in Admission, NEW t \in Nat
    PROVE  LET p == Recompute(r, t) IN
           /\ p \in Admission /\ p.dirty = FALSE
           /\ p.next_change = Earliest(Deadlines(r, t))
           /\ p.probation_busy = ProbationBusy(r, t)
           /\ p.recovery_required = Recovering(r, t)
           /\ p.successes = (IF Paused(r, t) THEN 0 ELSE r.successes)
           /\ p.probe = NextProbe(r, t) /\ p.state = State(r, t) /\ p.slots = Slots(r, t)
           /\ p.lane = r.lane /\ p.pause_until = r.pause_until
           /\ p.adverse = r.adverse /\ p.ended = r.ended
<1> DEFINE p == Recompute(r, t)
           n == Earliest(Deadlines(r, t))
           s == IF Paused(r, t) THEN 0 ELSE r.successes
<1>1. p = [r EXCEPT !.dirty = FALSE, !.next_change = n,
                    !.probation_busy = ProbationBusy(r, t),
                    !.recovery_required = Recovering(r, t),
                    !.successes = s,
                    !.probe = NextProbe(r, t), !.state = State(r, t),
                    !.slots = Slots(r, t)]
  BY RecomputeIs
<1>2. n \in Int
  BY DeadlinesAreTimes, EarliestIsFirst
<1>3. ProbationBusy(r, t) \in BOOLEAN /\ Recovering(r, t) \in BOOLEAN
  BY DEF ProbationBusy, Recovering, Paused
<1>4. s \in Nat /\ NextProbe(r, t) \in Probe \cup {NoProbe}
  BY Numbers DEF NextProbe, Admission
<1>5. State(r, t) \in Verdicts
  BY DEF State, Verdicts
<1>6. Slots(r, t) \in Nat
  BY SlotsType
<1> HIDE DEF p, n, s
<1>7. p \in Admission
  BY <1>1, <1>2, <1>3, <1>4, <1>5, <1>6 DEF Admission
<1>8. /\ p.dirty = FALSE /\ p.next_change = n /\ p.probation_busy = ProbationBusy(r, t)
      /\ p.recovery_required = Recovering(r, t) /\ p.successes = s
      /\ p.probe = NextProbe(r, t) /\ p.state = State(r, t) /\ p.slots = Slots(r, t)
      /\ p.lane = r.lane /\ p.pause_until = r.pause_until
      /\ p.adverse = r.adverse /\ p.ended = r.ended
  BY <1>1 DEF Admission
<1> QED
  BY <1>7, <1>8 DEF p, n, s

LEMMA RefreshIsNoBetter ==
    ASSUME NEW r \in Admission, NEW t \in Nat
    PROVE  refresh(r, t) \in Admission /\ NoBetter(refresh(r, t), r)
<1> DEFINE p == Recompute(r, t)
<1>1. /\ p \in Admission /\ p.lane = r.lane /\ p.adverse = r.adverse /\ p.ended = r.ended
      /\ p.successes = (IF Paused(r, t) THEN 0 ELSE r.successes)
      /\ p.probe = NextProbe(r, t) /\ p.recovery_required = Recovering(r, t)
  BY RecomputeFields
<1> HIDE DEF p
<1>2. r.recovery_required => p.recovery_required
  BY <1>1 DEF Recovering
<1>3. NoBetter(p, r)
  BY <1>1, <1>2 DEF NoBetter, SameLane, NextProbe
<1> QED
  BY <1>1, <1>3, NoBetterReflexive DEF refresh, p

-----------------------------------------------------------------------------
(* The cache of the verdict *)

\* What a verdict is computed from.
SameInputs(a, s, b, t) ==
    /\ \A i \in Lanes :
           /\ fresh(a.lane[i], s) = fresh(b.lane[i], t)
           /\ ready(a.lane[i]) = ready(b.lane[i])
           /\ cancel_ready(a.lane[i]) = cancel_ready(b.lane[i])
           /\ cancel_probe_eligible(a.lane[i], s) = cancel_probe_eligible(b.lane[i], t)
           /\ a.lane[i].busy = b.lane[i].busy /\ a.lane[i].verified = b.lane[i].verified
    /\ (s < a.pause_until) = (t < b.pause_until)

PartsAgree(a, s, b, t) ==
    /\ Free(a, s) = Free(b, t) /\ VerifiedFree(a, s) = VerifiedFree(b, t)
    /\ ProbationBusy(a, s) = ProbationBusy(b, t) /\ NoneBusy(a) = NoneBusy(b)
    /\ Paused(a, s) = Paused(b, t) /\ AllHealthy(a, s) = AllHealthy(b, t)
    /\ ReadyCancel(a, s) = ReadyCancel(b, t)

ResultsAgree(a, s, b, t) == State(a, s) = State(b, t) /\ Slots(a, s) = Slots(b, t)

LEMMA SameParts ==
    ASSUME NEW a, NEW b, NEW s, NEW t, SameInputs(a, s, b, t) PROVE PartsAgree(a, s, b, t)
<1>1. Fast \subseteq Lanes /\ Ordinary \subseteq Lanes
  BY DEF Lanes, Ordinary
<1>2. /\ Fresh(a, Fast, s) = Fresh(b, Fast, t)
      /\ Fresh(a, Ordinary, s) = Fresh(b, Ordinary, t)
      /\ Fresh(a, Lanes, s) = Fresh(b, Lanes, t)
  BY <1>1 DEF SameInputs, Fresh
<1>3. ReadyFast(a, s) = ReadyFast(b, t)
  BY <1>1, <1>2 DEF SameInputs, ReadyFast, Fresh
<1>4. ReadyCancel(a, s) = ReadyCancel(b, t) /\ EligibleCancel(a, s) = EligibleCancel(b, t)
  BY <1>1, <1>2 DEF SameInputs, ReadyCancel, EligibleCancel, Fresh
<1>5. \A i \in ReadyFast(b, t) : i \in Lanes
  BY <1>1 DEF ReadyFast, Fresh
<1>6. Free(a, s) = Free(b, t) /\ ProbationBusy(a, s) = ProbationBusy(b, t)
  BY <1>3, <1>5 DEF Free, ProbationBusy, SameInputs
<1>7. \A i \in Free(b, t) : i \in Lanes
  BY <1>5 DEF Free
<1>8. VerifiedFree(a, s) = VerifiedFree(b, t)
  BY <1>6, <1>7 DEF VerifiedFree, SameInputs
<1>9. Paused(a, s) = Paused(b, t)
  BY <1>3, <1>4 DEF Paused, SameInputs
<1>10. NoneBusy(a) = NoneBusy(b) /\ AllHealthy(a, s) = AllHealthy(b, t)
  BY <1>1, <1>2, <1>3, <1>4 DEF NoneBusy, AllHealthy, SameInputs
<1> QED
  BY <1>4, <1>6, <1>8, <1>9, <1>10 DEF PartsAgree

LEMMA SameOutputs ==
    ASSUME NEW a, NEW b, NEW s, NEW t, SameInputs(a, s, b, t),
           Recovering(a, s) = Recovering(b, t), NextProbe(a, s) = NextProbe(b, t)
    PROVE  ResultsAgree(a, s, b, t)
<1>1. /\ Free(a, s) = Free(b, t) /\ VerifiedFree(a, s) = VerifiedFree(b, t)
      /\ ProbationBusy(a, s) = ProbationBusy(b, t) /\ NoneBusy(a) = NoneBusy(b)
      /\ Paused(a, s) = Paused(b, t) /\ AllHealthy(a, s) = AllHealthy(b, t)
  <2>1. PartsAgree(a, s, b, t)
    BY SameParts
  <2> QED
    BY <2>1 DEF PartsAgree
<1>2. State(a, s) = State(b, t)
  BY <1>1 DEF State
<1>3. Slots(a, s) = Slots(b, t)
  BY <1>1 DEF Slots
<1> QED
  BY <1>2, <1>3 DEF ResultsAgree

\* The two verdicts agree when, besides, recovery and its counts do.
LEMMA SameRecompute ==
    ASSUME NEW a \in Admission, NEW b \in Admission, NEW s \in Nat, NEW t \in Nat,
           SameInputs(a, s, b, t), Recovering(a, s) = Recovering(b, t),
           Paused(b, t) \/ a.successes = b.successes,
           Paused(b, t) \/ a.probe = b.probe
    PROVE  SameVerdict(Recompute(a, s), Recompute(b, t))
<1>1. Paused(a, s) = Paused(b, t) /\ ProbationBusy(a, s) = ProbationBusy(b, t)
  <2>1. PartsAgree(a, s, b, t)
    BY SameParts
  <2> QED
    BY <2>1 DEF PartsAgree
<1>2. NextProbe(a, s) = NextProbe(b, t)
  BY <1>1 DEF NextProbe
<1>3. State(a, s) = State(b, t) /\ Slots(a, s) = Slots(b, t)
  <2>1. ResultsAgree(a, s, b, t)
    BY <1>2, SameOutputs
  <2> QED
    BY <1>2, <2>1 DEF ResultsAgree
<1> DEFINE p == Recompute(a, s)
           q == Recompute(b, t)
<1>4. /\ p.probation_busy = ProbationBusy(a, s) /\ p.recovery_required = Recovering(a, s)
      /\ p.successes = (IF Paused(a, s) THEN 0 ELSE a.successes)
      /\ p.probe = NextProbe(a, s) /\ p.state = State(a, s) /\ p.slots = Slots(a, s)
  BY RecomputeFields
<1>5. /\ q.probation_busy = ProbationBusy(b, t) /\ q.recovery_required = Recovering(b, t)
      /\ q.successes = (IF Paused(b, t) THEN 0 ELSE b.successes)
      /\ q.probe = NextProbe(b, t) /\ q.state = State(b, t) /\ q.slots = Slots(b, t)
  BY RecomputeFields
<1> HIDE DEF p, q
<1>6. p.successes = q.successes
  BY <1>1, <1>4, <1>5
<1>7. SameVerdict(p, q)
  BY <1>1, <1>2, <1>3, <1>4, <1>5, <1>6 DEF SameVerdict
<1> QED
  BY <1>7 DEF p, q

\* A verdict just computed is cached until the first of its deadlines.
LEMMA RecomputeIsCached ==
    ASSUME NEW r \in Admission, now \in Nat PROVE Cached(Recompute(r, now))
<1> DEFINE p == Recompute(r, now)
<1>1. /\ p \in Admission /\ p.next_change = Earliest(Deadlines(r, now))
      /\ p.probation_busy = ProbationBusy(r, now)
      /\ p.recovery_required = Recovering(r, now)
      /\ p.successes = (IF Paused(r, now) THEN 0 ELSE r.successes)
      /\ p.probe = NextProbe(r, now) /\ p.state = State(r, now) /\ p.slots = Slots(r, now)
      /\ p.lane = r.lane /\ p.pause_until = r.pause_until
  BY RecomputeFields
<1> DEFINE q == Recompute(p, now)
<1>2. /\ q.probation_busy = ProbationBusy(p, now)
      /\ q.recovery_required = Recovering(p, now)
      /\ q.successes = (IF Paused(p, now) THEN 0 ELSE p.successes)
      /\ q.probe = NextProbe(p, now) /\ q.state = State(p, now) /\ q.slots = Slots(p, now)
  BY <1>1, RecomputeFields
<1> HIDE DEF p, q
<1>3. SameInputs(p, now, r, now)
  BY <1>1 DEF SameInputs
<1>4. /\ Paused(p, now) = Paused(r, now) /\ ReadyCancel(p, now) = ReadyCancel(r, now)
      /\ ProbationBusy(p, now) = ProbationBusy(r, now)
  <2>1. PartsAgree(p, now, r, now)
    BY <1>3, SameParts
  <2> QED
    BY <1>3, <2>1 DEF PartsAgree
<1>5. Recovering(p, now) = Recovering(r, now) /\ NextProbe(p, now) = NextProbe(r, now)
  BY <1>1, <1>4 DEF Recovering, NextProbe
<1>6. State(p, now) = State(r, now) /\ Slots(p, now) = Slots(r, now)
  <2>1. ResultsAgree(p, now, r, now)
    BY <1>3, <1>5, SameOutputs
  <2> QED
    BY <1>3, <1>5, <2>1 DEF ResultsAgree
<1>7. SameVerdict(p, q)
  BY <1>1, <1>2, <1>4, <1>5, <1>6 DEF SameVerdict
<1>8. Deadlines(p, now) = Deadlines(r, now)
  BY <1>1 DEF Deadlines
<1>9. \A d \in Deadlines(p, now) : p.next_change <= d
  BY <1>1, <1>8, DeadlinesAreTimes, EarliestIsFirst
<1> QED
  BY <1>7, <1>9 DEF Cached, p, q

LEMMA RefreshIsCached ==
    ASSUME NEW r \in Admission, now \in Nat, Cached(r) PROVE Cached(refresh(r, now))
BY RecomputeIsCached DEF refresh

LEMMA DirtyIsCached == ASSUME NEW r, r.dirty = TRUE PROVE Cached(r)
BY DEF Cached

\* Nothing a cached verdict depends on changes before next_change.
LEMMA StillCached ==
    ASSUME NEW r \in Admission, now \in Nat, now' = now + 1, Cached(r) PROVE Cached(r)'
<1> SUFFICES ASSUME ~r.dirty
             PROVE  /\ \A d \in Deadlines(r, now') : r.next_change <= d
                    /\ now' < r.next_change => SameVerdict(r, Recompute(r, now'))
  BY DEF Cached
<1>1. \A d \in Deadlines(r, now) : r.next_change <= d
  BY DEF Cached
<1>2. now' \in Nat
  BY SMTT(40)
<1>3. \A d \in Deadlines(r, now') : d \in Deadlines(r, now)
  <2> SUFFICES ASSUME NEW d \in Deadlines(r, now') PROVE d \in Deadlines(r, now)
    OBVIOUS
  <2>1. d \in Nat
    BY <1>2, DeadlinesAreTimes
  <2>2. d > now'
    BY DEF Deadlines
  <2>3. d > now
    BY <2>1, <2>2, SMTT(40)
  <2> QED
    BY <2>3 DEF Deadlines
<1>4. ASSUME now' < r.next_change PROVE SameVerdict(r, Recompute(r, now'))
  <2>1. r.next_change \in Int /\ r.pause_until \in Int
    BY DEF Admission
  <2>2. now < r.next_change
    BY <1>4, <2>1, SMTT(40)
  <2>3. SameVerdict(r, Recompute(r, now))
    BY <2>2 DEF Cached
  <2>4. \A d \in Int : d \in Deadlines(r, now) => d > now'
    BY <1>1, <1>4, <2>1, SMTT(40)
  <2>5. ASSUME NEW d \in Int,
               \/ d = r.pause_until
               \/ \E i \in Lanes : d \in {r.lane[i].at, r.lane[i].at + stale_after + 1,
                                         r.lane[i].eligible}
        PROVE  (now < d) = (now' < d)
    <3>1. d > now => d \in Deadlines(r, now)
      BY <2>5 DEF Deadlines
    <3>2. d > now => d > now'
      BY <2>4, <3>1
    <3> QED
      BY <3>2, SMTT(40)
  <2>6. (now < r.pause_until) = (now' < r.pause_until)
    BY <2>1, <2>5
  <2>7. ASSUME NEW i \in Lanes
        PROVE  /\ fresh(r.lane[i], now) = fresh(r.lane[i], now')
               /\ cancel_probe_eligible(r.lane[i], now) = cancel_probe_eligible(r.lane[i], now')
    <3> DEFINE l == r.lane[i]
    <3>1. l.at \in Int /\ l.eligible \in Int
      BY LaneStates, Numbers DEF LaneState
    <3>2. l.at + stale_after + 1 \in Int
      BY <3>1, ConstantTypes, SMTT(40)
    <3>3. /\ (now < l.at) = (now' < l.at) /\ (now < l.eligible) = (now' < l.eligible)
          /\ (now < l.at + stale_after + 1) = (now' < l.at + stale_after + 1)
      BY <2>5, <3>1, <3>2
    <3> HIDE DEF l
    <3>4. /\ (l.at <= now) = (l.at <= now') /\ (now >= l.eligible) = (now' >= l.eligible)
          /\ (now - l.at <= stale_after) = (now' - l.at <= stale_after)
      BY <3>1, <3>3, ConstantTypes, SMTT(40)
    <3>5. /\ fresh(l, now) = fresh(l, now')
          /\ cancel_probe_eligible(l, now) = cancel_probe_eligible(l, now')
      BY <3>4 DEF fresh, cancel_probe_eligible
    <3> QED
      BY <3>5 DEF l
  <2>8. SameInputs(r, now, r, now')
    BY <2>6, <2>7 DEF SameInputs
  <2>9. Recovering(r, now) = Recovering(r, now')
    <3>1. PartsAgree(r, now, r, now')
      BY <2>8, SameParts
    <3> QED
      BY <2>8, <3>1 DEF Recovering, PartsAgree
  <2>10. SameVerdict(Recompute(r, now), Recompute(r, now'))
    BY <1>2, <2>8, <2>9, SameRecompute
  <2> QED
    BY <2>3, <2>10 DEF SameVerdict
<1> QED
  BY <1>1, <1>3, <1>4

-----------------------------------------------------------------------------
(* Taking away preserves what the router counts on *)

LEMMA EarnedType == ASSUME good \in Seq(Nat) PROVE \A n : Earned(n) \in Nat
<1>1. Len(good) \in Nat /\ DOMAIN good = 1 .. Len(good)
  BY SMTT(40)
<1>2. IsFiniteSet(DOMAIN good)
  BY <1>1, FS_Interval, SMTT(40)
<1>3. \A n : {k \in DOMAIN good : good[k] = n} \subseteq DOMAIN good
  OBVIOUS
<1> QED
  BY <1>2, <1>3, FS_Subset, FS_CardinalityType DEF Earned

LEMMA CountIs == (\A b : Count(b) \in Nat) /\ Count(FALSE) = 0 /\ Count(TRUE) = 1
BY SMTT(40) DEF Count

LEMMA NothingCounted ==
    ASSUME NEW p, good \in Seq(Nat), p.successes = 0, p.probe = NoProbe
    PROVE  Earned(p.adverse) >= p.successes + Count(Answered(p))
<1>1. Answered(p) = FALSE
  BY DEF Answered
<1>2. Count(Answered(p)) = 0
  BY <1>1, CountIs
<1>3. Earned(p.adverse) \in Nat
  BY EarnedType
<1> QED
  BY <1>2, <1>3, SMTT(40)

LEMMA NoBetterKept ==
    ASSUME NEW p, NEW r, NoBetter(p, r), good \in Seq(Nat), Known(r), Unraced(r),
           r.probe \in Probe \cup {NoProbe}, r.recovery_required \in BOOLEAN
    PROVE  Known(p) /\ Unraced(p)
<1>1. \A i \in Lanes : SameLane(p.lane[i], r.lane[i])
  BY DEF NoBetter
<1>2. Known(p)
  BY <1>1 DEF Known, SameLane
<1> SUFFICES ASSUME ~raced PROVE Unraced(p)
  BY <1>2 DEF Unraced
<1>3. (\A f \in Fast : Tracked(r, f)) /\ Probing(r) /\ Counted(r)
  BY DEF Unraced
<1>4. ASSUME NEW f \in Fast PROVE Tracked(p, f)
  <2>1. SameLane(p.lane[f], r.lane[f]) /\ Tracked(r, f)
    BY <1>1, <1>3 DEF Lanes
  <2> QED
    BY <2>1 DEF SameLane, Tracked, AfterDispatch
<1>5. ~p.recovery_required => Earned(p.ended) >= max(recovery_successes, 1)
  BY <1>3 DEF NoBetter, Counted
<1>6. CASE p.successes = 0 /\ p.probe = NoProbe
  <2>1. Probing(p)
    BY <1>6 DEF Probing
  <2>2. Counted(p)
    BY <1>5, <1>6, NothingCounted DEF Counted
  <2> QED
    BY <1>4, <2>1, <2>2 DEF Unraced
<1>7. CASE p.adverse = r.adverse /\ p.successes = r.successes /\ p.probe = r.probe
  <2>1. Answered(p) = Answered(r)
    BY <1>7 DEF Answered
  <2>2. Counted(p)
    BY <1>3, <1>5, <1>7, <2>1 DEF Counted
  <2>3. ASSUME p.probe # NoProbe PROVE SameLane(p.lane[p.probe.slot], r.lane[p.probe.slot])
    <3>1. p.probe \in Probe
      BY <1>7, <2>3
    <3>2. p.probe.slot \in Lanes
      BY <3>1 DEF Probe, Lanes
    <3> QED
      BY <1>1, <3>2
  <2>4. Probing(p)
    BY <1>3, <1>7, <2>3 DEF Probing, SameLane
  <2> QED
    BY <1>4, <2>2, <2>4 DEF Unraced
<1> QED
  BY <1>6, <1>7 DEF NoBetter

\* What holds of h, and of every state that refresh_health passes through.
Good(r) == r \in Admission /\ Known(r) /\ Unraced(r) /\ Cached(r)

LEMMA GoodNoBetter ==
    ASSUME NEW p \in Admission, NEW r, Good(r), good \in Seq(Nat), NoBetter(p, r), Cached(p)
    PROVE  Good(p)
<1>1. r.probe \in Probe \cup {NoProbe} /\ r.recovery_required \in BOOLEAN
  BY DEF Good, Admission
<1> QED
  BY <1>1, NoBetterKept DEF Good

LEMMA GoodRefresh ==
    ASSUME NEW r, Good(r), good \in Seq(Nat), now \in Nat PROVE Good(refresh(r, now))
<1>1. refresh(r, now) \in Admission /\ NoBetter(refresh(r, now), r)
  BY RefreshIsNoBetter DEF Good
<1>2. Cached(refresh(r, now))
  BY RefreshIsCached DEF Good
<1> QED
  BY <1>1, <1>2, GoodNoBetter

LEMMA GoodRetire ==
    ASSUME NEW r, Good(r), good \in Seq(Nat), now \in Nat
    PROVE  Good(retire_transport_generations(r, now))
<1> DEFINE p == retire_transport_generations(r, now)
<1>1. p \in Admission /\ NoBetter(p, r) /\ p.dirty = TRUE
  BY RetireGenerations DEF Good
<1> HIDE DEF p
<1>2. Cached(p)
  BY <1>1, DirtyIsCached
<1>3. Good(p)
  BY <1>1, <1>2, GoodNoBetter
<1> QED
  BY <1>3 DEF p

LEMMA GoodFault ==
    ASSUME NEW r, Good(r), good \in Seq(Nat), now \in Nat, NEW i \in Lanes
    PROVE  Good(mark_delivery_fault(r, i, now))
<1> DEFINE p == [r EXCEPT !.dirty = TRUE, !.lane[i].fault = TRUE]
           l == [r.lane[i] EXCEPT !.fault = TRUE]
<1>1. r \in Admission /\ r.lane[i] \in LaneState
  BY LaneStates DEF Good
<1>2. l \in LaneState /\ SameLane(l, r.lane[i])
  BY <1>1 DEF LaneState, SameLane
<1>3. /\ p = [r EXCEPT !.dirty = TRUE, !.lane[i] = l]
      /\ p.lane = [r.lane EXCEPT ![i] = l] /\ p.dirty = TRUE
      /\ p.adverse = r.adverse /\ p.successes = r.successes /\ p.probe = r.probe
      /\ p.ended = r.ended /\ p.recovery_required = r.recovery_required
  BY <1>1 DEF Admission
<1> HIDE DEF p, l
<1>4. p \in Admission
  <2>1. p = [r EXCEPT !.dirty = TRUE, !.lane = [r.lane EXCEPT ![i] = l]]
    BY <1>3
  <2>2. [r.lane EXCEPT ![i] = l] \in [Lanes -> LaneState]
    BY <1>1, <1>2 DEF Admission
  <2> QED
    BY <1>1, <2>1, <2>2 DEF Admission
<1>5. \A j \in Lanes : p.lane[j] = IF j = i THEN l ELSE r.lane[j]
  BY <1>1, <1>3 DEF Admission
<1>6. NoBetter(p, r)
  BY <1>2, <1>3, <1>5 DEF NoBetter, SameLane
<1>7. Cached(p)
  BY <1>3, DirtyIsCached
<1>8. Good(p)
  BY <1>4, <1>6, <1>7, GoodNoBetter
<1>9. Good(refresh(p, now))
  BY <1>8, GoodRefresh
<1> QED
  BY <1>9 DEF mark_delivery_fault, p

-----------------------------------------------------------------------------
(* observe *)

LaneObserved(l, p, o, e) ==
    /\ l \in LaneState
    /\ l.generation = o.generation /\ l.business = o.business
    /\ l.verified = Verified(p, o, e)
    /\ l.busy = (IF AfterDispatch(p, o) THEN o.busy ELSE p.busy)
    /\ l.dispatched = (IF AfterDispatch(p, o) /\ ~o.busy THEN NoTime ELSE p.dispatched)

LEMMA LaneAfterIs ==
    ASSUME NEW p \in LaneState, NEW o \in Observations, NEW e, NEW t \in Nat
    PROVE  LaneObserved(LaneAfter(p, o, e, t), p, o, e)
<1> DEFINE l == LaneAfter(p, o, e, t)
           after == AfterDispatch(p, o)
           heals == e.healthy /\ ~e.slow /\ p.retired # o.generation
           busy == IF after THEN o.busy ELSE p.busy
           dispatched == IF after /\ ~o.busy THEN NoTime ELSE p.dispatched
           failed == ~heals /\ (p.failed \/ e.adverse)
           eligible == IF heals THEN 0
                       ELSE IF e.adverse THEN t + Backoff(p.streak) ELSE p.eligible
           streak == IF heals THEN 0 ELSE IF e.adverse THEN p.streak + 1 ELSE p.streak
           retired == IF e.retires THEN o.generation ELSE p.retired
<1>1. l = [p EXCEPT
          !.seen = TRUE, !.at = o.at, !.generation = o.generation,
          !.quarantined = o.quarantined, !.business = o.business, !.fault = FALSE,
          !.busy = busy, !.dispatched = dispatched, !.verified = Verified(p, o, e),
          !.failed = failed, !.eligible = eligible, !.streak = streak, !.retired = retired]
  BY DEF LaneAfter, LaneState
<1>2. /\ o.at \in Nat /\ o.generation \in Nat /\ o.quarantined \in BOOLEAN
      /\ o.busy \in BOOLEAN /\ o.business \in Business
  BY DEF Observations
<1>3. /\ p.streak \in Nat /\ p.eligible \in Int /\ p.busy \in BOOLEAN
      /\ p.dispatched \in TimeOrNone /\ p.retired \in GenOrNone
  BY DEF LaneState
<1>4. p.streak + 1 \in Nat /\ t + Backoff(p.streak) \in Int
  <2>1. Backoff(p.streak) \in Int
    BY <1>3, BackoffType
  <2> QED
    BY <1>3, <2>1, SMTT(40)
<1>5. /\ busy \in BOOLEAN /\ dispatched \in TimeOrNone
      /\ failed \in BOOLEAN /\ retired \in GenOrNone
  BY <1>2, <1>3 DEF TimeOrNone, GenOrNone
<1>6. eligible \in Int /\ streak \in Nat
  BY <1>3, <1>4, Numbers
<1>7. Verified(p, o, e) \in BOOLEAN
  BY DEF Verified
<1> HIDE DEF l, busy, dispatched, failed, eligible, streak, retired, after, heals
<1>8. l \in LaneState
  <2> DEFINE m == [p EXCEPT
          !.seen = TRUE, !.at = o.at, !.generation = o.generation,
          !.quarantined = o.quarantined, !.business = o.business, !.fault = FALSE]
  <2>1. m \in LaneState
    BY <1>2 DEF LaneState
  <2> DEFINE k == [m EXCEPT !.dispatched = dispatched, !.eligible = eligible,
                            !.streak = streak, !.retired = retired]
             b == [k EXCEPT !.busy = busy]
             v == [b EXCEPT !.verified = Verified(p, o, e)]
  <2>2. l = [v EXCEPT !.failed = failed]
    BY <1>1
  <2> HIDE DEF m
  <2>3. k \in LaneState
    BY <1>5, <1>6, <2>1 DEF LaneState
  <2> HIDE DEF k
  <2>4. b \in LaneState
    BY <1>5, <2>3 DEF LaneState
  <2> HIDE DEF b
  <2>5. v \in LaneState
    BY <1>7, <2>4 DEF LaneState
  <2> HIDE DEF v
  <2> QED
    BY <1>5, <2>2, <2>5 DEF LaneState
<1>9. /\ l.generation = o.generation /\ l.business = o.business
      /\ l.verified = Verified(p, o, e) /\ l.busy = busy /\ l.dispatched = dispatched
  BY <1>1 DEF LaneState
<1> QED
  BY <1>8, <1>9 DEF LaneObserved, l, busy, dispatched, after

LEMMA ProvesHealthy ==
    ASSUME NEW p, NEW o, Evidence(p, o).proves
    PROVE  /\ o.business.attempt > p.business.attempt
           /\ o.business.outGen = o.generation /\ o.business.outcome = "Healthy"
BY DEF Evidence

LEMMA PenaliseIsNoBetter ==
    ASSUME NEW r \in Admission, NEW i \in Lanes, NEW o, NEW e, NEW t \in Nat, r.dirty = TRUE
    PROVE  LET p == Penalise(r, i, o, e, t) IN
           p \in Admission /\ NoBetter(p, r) /\ p.dirty = TRUE
<1> DEFINE reset == IF e.reset THEN retire_transport_generations(r, t) ELSE r
           noted == IF e.failure THEN note_failure(reset, i, t) ELSE reset
           probed == r.probe # NoProbe /\ r.probe.slot = i /\ o.at >= r.probe.at
           paused == IF e.failure /\ probed /\ t >= noted.pause_until
                     THEN pause_for_recovery(noted, t) ELSE noted
           last == [paused EXCEPT !.successes = 0, !.probe = NoProbe, !.adverse = @ + 1]
<1>1. reset \in Admission /\ NoBetter(reset, r) /\ reset.dirty = TRUE
  BY RetireGenerations, NoBetterReflexive
<1> HIDE DEF reset
<1>2. noted \in Admission /\ NoBetter(noted, reset) /\ noted.dirty = TRUE
  <2>1. /\ note_failure(reset, i, t) \in Admission
        /\ NoBetter(note_failure(reset, i, t), reset)
        /\ note_failure(reset, i, t).dirty = TRUE
    <3>1. /\ note_failure(reset, i, t) \in Admission
          /\ NoBetter(note_failure(reset, i, t), reset)
          /\ reset.dirty => note_failure(reset, i, t).dirty
      BY <1>1, NoteFailure
    <3>2. note_failure(reset, i, t).dirty \in BOOLEAN
      BY <3>1 DEF Admission
    <3> QED
      BY <1>1, <3>1, <3>2
  <2> QED
    BY <1>1, <2>1, NoBetterReflexive
<1> HIDE DEF noted
<1>3. paused \in Admission /\ NoBetter(paused, noted) /\ paused.dirty = TRUE
  <2>1. /\ pause_for_recovery(noted, t) \in Admission
        /\ NoBetter(pause_for_recovery(noted, t), noted)
        /\ pause_for_recovery(noted, t).dirty = TRUE
    BY <1>2, PauseForRecovery
  <2> QED
    BY <1>2, <2>1, NoBetterReflexive
<1>4. Penalise(r, i, o, e, t) = IF e.adverse THEN last ELSE paused
  BY DEF Penalise, reset, noted
<1> HIDE DEF paused
<1>5. /\ last \in Admission /\ last.lane = paused.lane /\ last.dirty = TRUE
      /\ last.successes = 0 /\ last.probe = NoProbe /\ last.ended = paused.ended
      /\ last.recovery_required = paused.recovery_required
  <2>1. paused.adverse + 1 \in Nat
    BY <1>3, Numbers DEF Admission
  <2> QED
    BY <1>3, <2>1, Numbers DEF Admission
<1> HIDE DEF last
<1>6. NoBetter(last, paused)
  BY <1>5 DEF NoBetter, SameLane
<1>7. NoBetter(noted, r)
  BY <1>1, <1>2, NoBetterTransitive
<1>8. NoBetter(paused, r)
  BY <1>3, <1>7, NoBetterTransitive
<1>9. NoBetter(last, r)
  BY <1>6, <1>8, NoBetterTransitive
<1> QED
  BY <1>3, <1>4, <1>5, <1>8, <1>9

Settles(r, i, o) == r.probe # NoProbe /\ r.probe.slot = i /\ o.at >= r.probe.at /\ ~o.busy

Settled(p, r, i, o, e) ==
    /\ p \in Admission /\ p.lane = r.lane /\ p.dirty = r.dirty
    /\ p.adverse = r.adverse /\ p.ended = r.ended
    /\ p.recovery_required = r.recovery_required
    /\ ~Settles(r, i, o) => p.probe = r.probe /\ p.successes = r.successes
    /\ Settles(r, i, o) =>
         /\ p.probe = NoProbe
         /\ \/ p.successes = r.successes
            \/ /\ p.successes = r.successes + 1
               /\ e.proves /\ o.business.attempt > r.probe.after

LEMMA SettleProbeIs ==
    ASSUME NEW r \in Admission, NEW i, NEW o, NEW e
    PROVE  Settled(SettleProbe(r, i, o, e), r, i, o, e)
<1> DEFINE p == SettleProbe(r, i, o, e)
           settles == Settles(r, i, o)
           earns == /\ e.proves /\ o.generation = r.probe.generation
                    /\ o.business.attempt > r.probe.after
           n == IF earns THEN r.successes + 1 ELSE r.successes
<1>1. r.successes \in Nat /\ r.successes + 1 \in Nat
  BY Numbers DEF Admission
<1>2. n \in Nat
  BY <1>1
<1>3. p = IF settles THEN [r EXCEPT !.probe = NoProbe, !.successes = n] ELSE r
  BY DEF SettleProbe, Settles, Admission
<1> HIDE DEF n, p
<1>4. CASE settles
  <2>1. p = [r EXCEPT !.probe = NoProbe, !.successes = n]
    BY <1>3, <1>4
  <2>2. /\ p \in Admission /\ p.lane = r.lane /\ p.dirty = r.dirty
        /\ p.adverse = r.adverse /\ p.ended = r.ended
        /\ p.recovery_required = r.recovery_required /\ p.probe = NoProbe /\ p.successes = n
    BY <1>2, <2>1 DEF Admission
  <2> QED
    BY <1>4, <2>2 DEF Settled, p, n
<1>5. CASE ~settles
  <2>1. p = r
    BY <1>3, <1>5
  <2> QED
    BY <1>5, <2>1 DEF Settled, p
<1> QED
  BY <1>4, <1>5

LEMMA EndRecoveryIs ==
    ASSUME NEW r \in Admission, NEW t
    PROVE  LET p == EndRecovery(r, t) IN
           \/ p = r
           \/ /\ p \in Admission /\ p.lane = r.lane /\ p.dirty = r.dirty
              /\ p.adverse = r.adverse /\ p.ended = r.adverse
              /\ p.probe = r.probe /\ p.successes = r.successes
              /\ r.successes >= max(recovery_successes, 1)
<1> DEFINE q == [r EXCEPT !.recovery_required = FALSE, !.streak = 0, !.ended = r.adverse]
<1>1. r.adverse \in Nat
  BY DEF Admission
<1>2. /\ q \in Admission /\ q.lane = r.lane /\ q.dirty = r.dirty
      /\ q.adverse = r.adverse /\ q.ended = r.adverse
      /\ q.probe = r.probe /\ q.successes = r.successes
  BY <1>1, Numbers DEF Admission
<1>3. \/ EndRecovery(r, t) = r
      \/ EndRecovery(r, t) = q /\ r.successes >= max(recovery_successes, 1)
  BY DEF EndRecovery
<1> HIDE DEF q
<1> QED
  BY <1>2, <1>3

\* An observation that is consumed: the lane it is about is known anew, a probe on
\* it is settled as it answers, and recovery ends once enough of them were healthy.
LEMMA GoodConsumed ==
    ASSUME NEW r, Good(r), now \in Nat, good \in Seq(Nat), owner \in [Lanes -> Owner],
           NEW i \in Lanes, cell[i] # NoObservation, cell[i] \in Observations
    PROVE  LET o == cell[i]
               e == Evidence(r.lane[i], o)
               seen == [r EXCEPT !.dirty = TRUE, !.lane[i] = LaneAfter(r.lane[i], o, e, now)]
               judged == SettleProbe(Penalise(seen, i, o, e, now), i, o, e)
           IN  Good(EndRecovery(judged, now))
<1> DEFINE p == r.lane[i]
           o == cell[i]
           e == Evidence(p, o)
           l == LaneAfter(p, o, e, now)
           seen == [r EXCEPT !.dirty = TRUE, !.lane[i] = l]
           hit == Penalise(seen, i, o, e, now)
           judged == SettleProbe(hit, i, o, e)
           final == EndRecovery(judged, now)
<1>1. r \in Admission /\ p \in LaneState /\ o \in Observations
  BY LaneStates DEF Good
<1>2. /\ l \in LaneState /\ l.generation = o.generation /\ l.business = o.business
      /\ l.verified = Verified(p, o, e)
      /\ l.busy = (IF AfterDispatch(p, o) THEN o.busy ELSE p.busy)
      /\ l.dispatched = (IF AfterDispatch(p, o) /\ ~o.busy THEN NoTime ELSE p.dispatched)
  <2>1. LaneObserved(l, p, o, e)
    BY <1>1, LaneAfterIs
  <2> QED
    BY <2>1 DEF LaneObserved
<1>3. e.proves => /\ o.business.attempt > p.business.attempt
                  /\ o.business.outGen = o.generation /\ o.business.outcome = "Healthy"
  BY ProvesHealthy
<1> SUFFICES Good(final)
  OBVIOUS
<1> HIDE DEF l
<1>4. /\ seen \in Admission /\ seen.dirty = TRUE /\ seen.lane = [r.lane EXCEPT ![i] = l]
      /\ seen.adverse = r.adverse /\ seen.successes = r.successes /\ seen.probe = r.probe
      /\ seen.ended = r.ended /\ seen.recovery_required = r.recovery_required
  BY <1>1, <1>2 DEF Admission
<1>5. seen.lane[i] = l /\ \A j \in Lanes \ {i} : seen.lane[j] = r.lane[j]
  BY <1>1, <1>4 DEF Admission
<1> HIDE DEF seen
<1>6. hit \in Admission /\ NoBetter(hit, seen) /\ hit.dirty = TRUE
  BY <1>4, PenaliseIsNoBetter
<1> HIDE DEF hit, e
<1> DEFINE settles == Settles(hit, i, o)
<1>7. /\ judged \in Admission /\ judged.lane = hit.lane /\ judged.dirty = TRUE
      /\ judged.adverse = hit.adverse /\ judged.ended = hit.ended
      /\ judged.recovery_required = hit.recovery_required
      /\ ~settles => judged.probe = hit.probe /\ judged.successes = hit.successes
      /\ settles => /\ judged.probe = NoProbe
                    /\ \/ judged.successes = hit.successes
                       \/ /\ judged.successes = hit.successes + 1
                          /\ e.proves /\ o.business.attempt > hit.probe.after
  <2>1. Settled(judged, hit, i, o, e)
    BY <1>6, SettleProbeIs
  <2> QED
    BY <1>6, <2>1 DEF Settled
<1> HIDE DEF judged
<1>8. /\ SameLane(judged.lane[i], l)
      /\ \A j \in Lanes \ {i} : SameLane(judged.lane[j], r.lane[j])
  BY <1>5, <1>6, <1>7 DEF NoBetter
<1>9. Known(judged)
  <2>1. Known(r)
    BY DEF Good
  <2>2. ASSUME l.verified PROVE <<i, l.generation>> \in proven
    <3>1. CASE p.verified /\ o.generation = p.generation
      BY <1>2, <2>1, <3>1 DEF Known
    <3>2. CASE e.proves
      BY <1>2, <1>3, <2>1, <3>2 DEF Known
    <3> QED
      BY <1>2, <2>2, <3>1, <3>2 DEF Verified
  <2>3. \A j \in Lanes : judged.lane[j].verified => <<j, judged.lane[j].generation>> \in proven
    <3>1. judged.lane[i].verified => <<i, judged.lane[i].generation>> \in proven
      BY <1>8, <2>2 DEF SameLane
    <3>2. \A j \in Lanes \ {i} :
              judged.lane[j].verified => <<j, judged.lane[j].generation>> \in proven
      BY <1>8, <2>1 DEF SameLane, Known
    <3> QED
      BY <3>1, <3>2
  <2> QED
    BY <2>1, <2>3 DEF Known
<1>10. ASSUME ~raced PROVE (\A f \in Fast : Tracked(judged, f)) /\ Probing(judged) /\ Counted(judged)
  <2>1. (\A f \in Fast : Tracked(r, f)) /\ Probing(r) /\ Counted(r)
    BY <1>10 DEF Good, Unraced
  <2>2. ASSUME i \in Fast PROVE Tracked(judged, i)
    <3>1. /\ owner[i].job = "place" => p.busy
          /\ ~p.busy => p.dispatched = NoTime /\ p.business.attempt = owner[i].business.attempt
          /\ ~o.busy /\ AfterDispatch(p, o) =>
                 owner[i].job # "place" /\ o.business = owner[i].business
      BY <2>1, <2>2 DEF Tracked
    <3>2. CASE AfterDispatch(p, o) /\ ~o.busy
      <4>1. l.busy = o.busy /\ l.dispatched = NoTime /\ l.business = o.business
        BY <1>2, <3>2
      <4> QED
        BY <1>8, <3>1, <3>2, <4>1 DEF SameLane, Tracked
    <3>3. CASE AfterDispatch(p, o) /\ o.busy
      <4>1. l.busy = o.busy /\ l.dispatched = p.dispatched
        BY <1>2, <3>3
      <4> QED
        BY <1>8, <3>1, <3>3, <4>1 DEF SameLane, Tracked
    <3>4. CASE ~AfterDispatch(p, o)
      <4>1. l.busy = p.busy /\ l.dispatched = p.dispatched
        BY <1>2, <3>4
      <4>2. p.busy
        BY <3>1, <3>4 DEF AfterDispatch
      <4>3. ~AfterDispatch(judged.lane[i], o)
        BY <1>8, <3>4, <4>1 DEF SameLane, AfterDispatch
      <4> QED
        BY <1>8, <4>1, <4>2, <4>3 DEF SameLane, Tracked
    <3> QED
      BY <3>2, <3>3, <3>4
  <2>3. ASSUME NEW f \in Fast \ {i} PROVE Tracked(judged, f)
    <3>1. Tracked(r, f) /\ SameLane(judged.lane[f], r.lane[f])
      BY <1>8, <2>1 DEF Lanes
    <3> QED
      BY <3>1 DEF Tracked, SameLane, AfterDispatch
  <2>4. ~judged.recovery_required => Earned(judged.ended) >= max(recovery_successes, 1)
    BY <1>4, <1>6, <1>7, <2>1 DEF NoBetter, Counted
  <2>5. CASE hit.successes = 0 /\ hit.probe = NoProbe
    <3>1. judged.probe = NoProbe /\ judged.successes = 0
      BY <1>7, <2>5 DEF Settles
    <3>2. Counted(judged)
      BY <2>4, <3>1, NothingCounted DEF Counted
    <3>3. Probing(judged)
      BY <3>1 DEF Probing
    <3> QED
      BY <2>2, <2>3, <3>2, <3>3
  <2>6. CASE hit.adverse = r.adverse /\ hit.successes = r.successes /\ hit.probe = r.probe
    <3>1. CASE ~settles
      <4>1. judged.probe = r.probe /\ judged.successes = r.successes /\ judged.adverse = r.adverse
        BY <1>7, <2>6, <3>1
      <4>2. Answered(judged) = Answered(r)
        BY <4>1 DEF Answered
      <4>3. Counted(judged)
        BY <2>1, <2>4, <4>1, <4>2 DEF Counted
      <4>4. ASSUME r.probe # NoProbe PROVE Probing(judged)
        <5> DEFINE f == r.probe.slot
        <5>1. f \in Fast /\ r.probe.at \in Nat
          BY <1>1, <4>4 DEF Admission, Probe
        <5>2. /\ r.lane[f].busy /\ r.lane[f].dispatched = r.probe.at
              /\ owner[f].job = "place" =>
                     owner[f].tag = r.adverse /\ owner[f].business.attempt = r.probe.after
          BY <2>1, <4>4 DEF Probing
        <5>3. judged.lane[f].busy /\ judged.lane[f].dispatched = r.probe.at
          <6>1. CASE f # i
            BY <1>8, <5>1, <5>2, <6>1 DEF SameLane, Lanes
          <6>2. CASE f = i
            <7>1. r.probe.at # NoTime
              BY <5>1, SMTT(40) DEF NoTime
            <7>2. p.busy /\ p.dispatched = r.probe.at
              BY <5>2, <6>2
            <7>3. ~AfterDispatch(p, o) \/ o.busy
              BY <2>6, <3>1, <4>4, <6>2, <7>1, <7>2 DEF AfterDispatch, Settles
            <7>4. l.busy /\ l.dispatched = r.probe.at
              BY <1>2, <7>2, <7>3
            <7> QED
              BY <1>8, <6>2, <7>4 DEF SameLane
          <6> QED
            BY <6>1, <6>2
        <5> QED
          BY <4>1, <5>2, <5>3 DEF Probing
      <4>5. Probing(judged)
        BY <4>1, <4>4 DEF Probing
      <4> QED
        BY <2>2, <2>3, <4>3, <4>5
    <3>2. CASE settles
      <4>1. judged.probe = NoProbe /\ judged.adverse = r.adverse
        BY <1>7, <2>6, <3>2
      <4>2. /\ r.probe # NoProbe /\ r.probe.slot = i /\ o.at >= r.probe.at /\ ~o.busy
        BY <2>6, <3>2 DEF Settles
      <4>3. r.probe \in Probe
        BY <1>1, <4>2 DEF Admission
      <4>4. i \in Fast /\ p.dispatched = r.probe.at
        BY <2>1, <4>2, <4>3 DEF Probing, Probe
      <4>5. o.business = owner[i].business
        BY <2>1, <4>2, <4>4 DEF Tracked, AfterDispatch
      <4>6. Count(Answered(judged)) = 0
        <5>1. Answered(judged) = FALSE
          BY <4>1 DEF Answered
        <5> QED
          BY <5>1, CountIs
      <4>7. Earned(r.adverse) >= r.successes + Count(Answered(r))
        BY <2>1 DEF Counted
      <4>8. Earned(r.adverse) \in Nat /\ r.successes \in Nat /\ Count(Answered(r)) \in Nat
        BY <1>1, EarnedType, CountIs DEF Admission
      <4>9. CASE judged.successes = r.successes
        <5>1. Earned(r.adverse) >= r.successes + 0
          BY <4>7, <4>8, SMTT(40)
        <5> QED
          BY <2>2, <2>3, <2>4, <4>1, <4>6, <4>9, <5>1 DEF Counted, Probing
      <4>10. CASE judged.successes = r.successes + 1 /\ e.proves /\ o.business.attempt > r.probe.after
        <5>1. Answered(r) = TRUE
          BY <1>3, <4>2, <4>5, <4>10 DEF Answered
        <5>2. Earned(r.adverse) >= r.successes + 1
          BY <4>7, <5>1, CountIs
        <5>3. Earned(r.adverse) >= (r.successes + 1) + 0
          BY <4>8, <5>2, SMTT(40)
        <5> QED
          BY <2>2, <2>3, <2>4, <4>1, <4>6, <4>10, <5>3 DEF Counted, Probing
      <4> QED
        BY <1>7, <2>6, <3>2, <4>9, <4>10
    <3> QED
      BY <3>1, <3>2
  <2> QED
    BY <1>4, <1>6, <2>5, <2>6 DEF NoBetter
<1>11. Good(judged)
  BY <1>7, <1>9, <1>10, DirtyIsCached DEF Good, Unraced
<1>12. CASE final = judged
  BY <1>11, <1>12
<1>13. CASE /\ final \in Admission /\ final.lane = judged.lane /\ final.dirty = judged.dirty
            /\ final.adverse = judged.adverse /\ final.ended = judged.adverse
            /\ final.probe = judged.probe /\ final.successes = judged.successes
            /\ judged.successes >= max(recovery_successes, 1)
  <2> HIDE DEF final
  <2>1. Known(final) /\ Cached(final)
    BY <1>7, <1>9, <1>13, DirtyIsCached DEF Known
  <2>2. ASSUME ~raced PROVE (\A f \in Fast : Tracked(final, f)) /\ Probing(final) /\ Counted(final)
    <3>1. (\A f \in Fast : Tracked(judged, f)) /\ Probing(judged) /\ Counted(judged)
      BY <1>10, <2>2
    <3>2. (\A f \in Fast : Tracked(final, f)) /\ Probing(final)
      <4>1. \A f \in Fast : Tracked(final, f)
        BY <1>13, <3>1 DEF Tracked
      <4>2. Probing(final)
        BY <1>13, <3>1 DEF Probing
      <4> QED
        BY <4>1, <4>2
    <3>3. Answered(final) = Answered(judged)
      BY <1>13 DEF Answered
    <3>4. Earned(judged.adverse) >= judged.successes + Count(Answered(judged))
      BY <3>1 DEF Counted
    <3>5. /\ Earned(judged.adverse) \in Nat /\ judged.successes \in Nat
          /\ Count(Answered(judged)) \in Nat /\ max(recovery_successes, 1) \in Nat
      BY <1>7, EarnedType, CountIs, ConstantTypes DEF Admission
    <3>6. Earned(judged.adverse) >= max(recovery_successes, 1)
      BY <1>13, <3>4, <3>5, SMTT(40)
    <3> QED
      BY <1>13, <3>2, <3>3, <3>4, <3>6 DEF Counted
  <2> QED
    BY <1>13, <2>1, <2>2 DEF Good, Unraced
<1> QED
  BY <1>7, <1>12, <1>13, EndRecoveryIs

LEMMA GoodObserve ==
    ASSUME NEW r, Good(r), now \in Nat, good \in Seq(Nat), owner \in [Lanes -> Owner],
           NEW i \in Lanes, cell[i] # NoObservation, cell[i] \in Observations
    PROVE  Good(observe(r, i, cell[i], now))
<1> DEFINE o == cell[i]
           e == Evidence(r.lane[i], o)
           seen == [r EXCEPT !.dirty = TRUE, !.lane[i] = LaneAfter(r.lane[i], o, e, now)]
           judged == SettleProbe(Penalise(seen, i, o, e, now), i, o, e)
           final == EndRecovery(judged, now)
<1>1. Good(final)
  BY GoodConsumed
<1>2. \/ observe(r, i, o, now) = refresh(r, now)
      \/ observe(r, i, o, now) = mark_delivery_fault(r, i, now)
      \/ observe(r, i, o, now) = refresh(final, now)
  BY SMTT(40) DEF observe
<1> HIDE DEF final
<1>3. Good(refresh(final, now)) /\ Good(refresh(r, now)) /\ Good(mark_delivery_fault(r, i, now))
  BY <1>1, GoodRefresh, GoodFault
<1> QED
  BY <1>2, <1>3

-----------------------------------------------------------------------------
(* refresh_health drains the lanes *)

\* The lanes are drained one after the other: the recursion has a solution.
LEMMA DrainedIs ==
    /\ Drained[0] = h
    /\ \A k \in 1 .. Len(LaneOrder) : Drained[k] = Drain(LaneOrder[k], Drained[k - 1])
<1> DEFINE N == Len(LaneOrder)
           S == {n \in Nat : \E f : f = [k \in 0 .. n |->
                                   IF k = 0 THEN h ELSE Drain(LaneOrder[k], f[k - 1])]}
<1>1. N \in Nat
  BY RouterAssumption, SMTT(40)
<1>2. 0 \in S
  <2> DEFINE f == [k \in 0 .. 0 |-> h]
  <2>1. \A k \in 0 .. 0 : k = 0
    BY SMTT(40)
  <2>2. f = [k \in 0 .. 0 |-> IF k = 0 THEN h ELSE Drain(LaneOrder[k], f[k - 1])]
    BY <2>1
  <2> QED
    BY <2>2, Numbers
<1>3. ASSUME NEW n \in Nat, n \in S PROVE n + 1 \in S
  <2>1. PICK f : f = [k \in 0 .. n |-> IF k = 0 THEN h ELSE Drain(LaneOrder[k], f[k - 1])]
    BY <1>3
  <2> DEFINE g == [k \in 0 .. n + 1 |-> IF k = 0 THEN h ELSE Drain(LaneOrder[k], f[k - 1])]
  <2>2. \A k \in 0 .. n + 1 : k # 0 => k - 1 \in 0 .. n /\ k - 1 \in 0 .. n + 1
    BY SMTT(40)
  <2>3. \A k \in 0 .. n : k \in 0 .. n + 1
    BY SMTT(40)
  <2>4. \A k \in 0 .. n : f[k] = IF k = 0 THEN h ELSE Drain(LaneOrder[k], f[k - 1])
    BY <2>1
  <2>5. \A k \in 0 .. n : g[k] = f[k]
    BY <2>3, <2>4
  <2>6. \A k \in 0 .. n + 1 : k # 0 => g[k - 1] = f[k - 1]
    BY <2>2, <2>5
  <2>7. g = [k \in 0 .. n + 1 |-> IF k = 0 THEN h ELSE Drain(LaneOrder[k], g[k - 1])]
    BY <2>6
  <2> QED
    BY <2>7, Numbers
<1>4. N \in S
  <2> HIDE DEF S
  <2> QED
    BY <1>1, <1>2, <1>3, NatInd
<1>5. Drained = [k \in 0 .. N |-> IF k = 0 THEN h ELSE Drain(LaneOrder[k], Drained[k - 1])]
  BY <1>4 DEF Drained
<1>6. 0 \in 0 .. N /\ \A k \in 1 .. N : k \in 0 .. N /\ k # 0
  BY <1>1, SMTT(40)
<1> HIDE DEF N
<1>7. \A k \in 0 .. N : Drained[k] = IF k = 0 THEN h ELSE Drain(LaneOrder[k], Drained[k - 1])
  BY <1>5
<1> QED
  BY <1>6, <1>7 DEF N

LEMMA GoodDrain ==
    ASSUME TypeOK, NEW r, Good(r), NEW i \in Lanes PROVE Good(Drain(i, r))
<1>1. now \in Nat /\ good \in Seq(Nat) /\ owner \in [Lanes -> Owner]
  BY DEF TypeOK
<1>2. cell[i] # NoObservation => cell[i] \in Observations
  BY DEF TypeOK
<1>3. cell[i] # NoObservation => Good(observe(r, i, cell[i], now))
  BY <1>1, <1>2, GoodObserve
<1>4. Good(mark_delivery_fault(r, i, now))
  BY <1>1, GoodFault
<1> QED
  BY <1>3, <1>4 DEF Drain

LEMMA GoodDrained == ASSUME TypeOK, Good(h) PROVE Good(Drained[Len(LaneOrder)])
<1> DEFINE N == Len(LaneOrder)
           S == {n \in Nat : n \in 0 .. N => Good(Drained[n])}
<1>1. N \in Nat /\ \A k \in 1 .. N : LaneOrder[k] \in Lanes
  BY RouterAssumption, SMTT(40)
<1>2. 0 \in S
  BY DrainedIs, Numbers
<1>3. ASSUME NEW n \in Nat, n \in S PROVE n + 1 \in S
  <2> SUFFICES ASSUME n + 1 \in 0 .. N PROVE Good(Drained[n + 1])
    BY Numbers
  <2>1. n \in 0 .. N /\ n + 1 \in 1 .. N /\ (n + 1) - 1 = n
    BY <1>1, SMTT(40)
  <2>2. Good(Drained[n])
    BY <1>3, <2>1
  <2>3. Drained[n + 1] = Drain(LaneOrder[n + 1], Drained[n])
    BY <2>1, DrainedIs
  <2> QED
    BY <1>1, <2>1, <2>2, <2>3, GoodDrain
<1>4. N \in S
  <2> HIDE DEF S
  <2> QED
    BY <1>1, <1>2, <1>3, NatInd
<1>5. N \in 0 .. N
  BY <1>1, SMTT(40)
<1> QED
  BY <1>4, <1>5

\* Forgetting that a reset is due changes no verdict.
LEMMA GoodTaken ==
    ASSUME NEW r, Good(r), good \in Seq(Nat), now \in Nat
    PROVE  Good([r EXCEPT !.reset_pending = FALSE])
<1> DEFINE p == [r EXCEPT !.reset_pending = FALSE]
<1>1. /\ p \in Admission /\ p.lane = r.lane /\ p.dirty = r.dirty
      /\ p.pause_until = r.pause_until /\ p.next_change = r.next_change
      /\ p.adverse = r.adverse /\ p.successes = r.successes /\ p.probe = r.probe
      /\ p.ended = r.ended /\ p.recovery_required = r.recovery_required
      /\ p.state = r.state /\ p.slots = r.slots /\ p.probation_busy = r.probation_busy
  BY DEF Good, Admission
<1> HIDE DEF p
<1>2. NoBetter(p, r)
  BY <1>1 DEF NoBetter, SameLane
<1>3. SameInputs(p, now, r, now)
  BY <1>1 DEF SameInputs
<1>4. Recovering(p, now) = Recovering(r, now)
  <2>1. PartsAgree(p, now, r, now)
    BY <1>3, SameParts
  <2> QED
    BY <1>1, <2>1 DEF PartsAgree, Recovering
<1>5. SameVerdict(Recompute(p, now), Recompute(r, now))
  BY <1>1, <1>3, <1>4, SameRecompute DEF Good
<1>6. Deadlines(p, now) = Deadlines(r, now)
  <2>1. p.lane = r.lane /\ p.pause_until = r.pause_until
    BY <1>1
  <2> QED
    BY <2>1 DEF Deadlines
<1>7. SameVerdict(r, Recompute(r, now)) => SameVerdict(p, Recompute(p, now))
  BY <1>1, <1>5 DEF SameVerdict
<1>8. Cached(p)
  BY <1>1, <1>6, <1>7 DEF Good, Cached
<1>9. Good(p)
  BY <1>1, <1>2, <1>8, GoodNoBetter
<1> QED
  BY <1>9 DEF p

-----------------------------------------------------------------------------
(* Steps of the owners *)

LEMMA UnchangedCached == ASSUME h' = h, now' = now, Cached(h) PROVE Cached(h)'
BY DEF Cached

LEMMA Faults == ASSUME TypeOK, NEW n \in Nat, Fault(n) PROVE faults' \in Nat
BY SMTT(40) DEF TypeOK, Fault

\* An owner that records no outcome: it may publish, take or drop its command, or die.
LEMMA QuietStep ==
    ASSUME IInv, NEW i \in Lanes, NEW o \in Owner, owner' = [owner EXCEPT ![i] = o],
           o.business = owner[i].business,
           o.job = "place" => owner[i].job = "place" /\ o.tag = owner[i].tag,
           o.job = "place" => o.occupied, o.pc = "run" => o.job = "place",
           \/ cell' = cell
           \/ \E c \in Observations :
                 /\ cell' = [cell EXCEPT ![i] = c]
                 /\ c.at <= now /\ c.business = o.business
                 /\ ~c.busy /\ ~raced' => o.job # "place",
           raced => raced', raced' \in BOOLEAN, faults' \in Nat,
           UNCHANGED <<now, h, rpc, resets, sent, good, proven>>
    PROVE  IInv'
<1>u. /\ now' = now /\ h' = h /\ rpc' = rpc /\ resets' = resets /\ sent' = sent
      /\ good' = good /\ proven' = proven
  OBVIOUS
<1>t. owner \in [Lanes -> Owner] /\ cell \in [Lanes -> Observations \cup {NoObservation}]
  BY DEF IInv, TypeOK
<1>o. owner'[i] = o /\ \A j \in Lanes \ {i} : owner'[j] = owner[j]
  BY <1>t
<1>c. /\ \A j \in Lanes \ {i} : cell'[j] = cell[j]
      /\ \/ cell'[i] = cell[i]
         \/ cell'[i].at <= now /\ cell'[i].business = o.business
            /\ (~cell'[i].busy /\ ~raced' => o.job # "place")
  BY <1>t
<1>1. TypeOK'
  <2>1. owner' \in [Lanes -> Owner] /\ cell' \in [Lanes -> Observations \cup {NoObservation}]
    BY <1>t
  <2> QED
    BY <2>1 DEF IInv, TypeOK
<1>2. Queued'
  <2>1. ASSUME NEW j \in Lanes
        PROVE  /\ cell'[j] # NoObservation => cell'[j].at <= now'
               /\ owner'[j].job = "place" => owner'[j].occupied
               /\ owner'[j].pc = "run" => owner'[j].job = "place"
    <3>1. /\ cell[j] # NoObservation => cell[j].at <= now
          /\ owner[j].job = "place" => owner[j].occupied
          /\ owner[j].pc = "run" => owner[j].job = "place"
      BY DEF IInv, Queued
    <3>2. CASE j = i
      BY <1>u, <1>o, <1>c, <3>1, <3>2
    <3>3. CASE j # i
      BY <1>u, <1>o, <1>c, <3>1, <3>3
    <3> QED
      BY <3>2, <3>3
  <2> QED
    BY <2>1 DEF Queued
<1>3. Known(h)'
  <2>1. Known(h)
    BY DEF IInv
  <2>2. owner'[i].business = owner[i].business
    BY <1>o
  <2>3. cell'[i] = cell[i] \/ cell'[i].business = owner[i].business
    BY <1>c
  <2>4. \A j \in Lanes : /\ owner'[j].business = owner[j].business
                         /\ cell'[j] = cell[j] \/ cell'[j].business = owner[j].business
    BY <1>o, <1>c, <2>2, <2>3
  <2> QED
    BY <1>u, <2>1, <2>4 DEF Known
<1>4. Cached(h)'
  BY UnchangedCached DEF IInv
<1>5. ASSUME ~raced' PROVE (\A f \in Fast : Tracked(h, f))' /\ Probing(h)' /\ Counted(h)'
  <2>1. (\A f \in Fast : Tracked(h, f)) /\ Probing(h) /\ Counted(h)
    BY <1>5 DEF IInv, Unraced
  <2>2. ASSUME NEW f \in Fast PROVE Tracked(h, f)'
    <3>1. Tracked(h, f) /\ f \in Lanes
      BY <2>1 DEF Lanes
    <3>2. CASE f # i
      BY <1>o, <1>c, <3>1, <3>2 DEF Tracked
    <3>3. CASE f = i
      <4>1. /\ owner[i].job = "place" => h.lane[i].busy
            /\ ~h.lane[i].busy => /\ h.lane[i].dispatched = NoTime
                                  /\ h.lane[i].business.attempt = owner[i].business.attempt
            /\ cell[i] # NoObservation /\ ~cell[i].busy /\ AfterDispatch(h.lane[i], cell[i]) =>
                   owner[i].job # "place" /\ cell[i].business = owner[i].business
        BY <3>1, <3>3 DEF Tracked
      <4>2. /\ owner'[i].job = "place" => h'.lane[i].busy
            /\ ~h'.lane[i].busy => /\ h'.lane[i].dispatched = NoTime
                                   /\ h'.lane[i].business.attempt = owner'[i].business.attempt
        BY <1>u, <1>o, <4>1
      <4>3. cell'[i] # NoObservation /\ ~cell'[i].busy /\ AfterDispatch(h'.lane[i], cell'[i]) =>
                   owner'[i].job # "place" /\ cell'[i].business = owner'[i].business
        BY <1>u, <1>o, <1>c, <1>5, <4>1
      <4> QED
        BY <3>3, <4>2, <4>3 DEF Tracked
    <3> QED
      BY <3>2, <3>3
  <2>3. \A j \in Lanes : /\ owner'[j].business = owner[j].business
                         /\ owner'[j].job = "place" =>
                                owner[j].job = "place" /\ owner'[j].tag = owner[j].tag
    BY <1>o
  <2>4. h.probe # NoProbe => h.probe.slot \in Lanes
    BY DEF IInv, TypeOK, Admission, Probe, Lanes
  <2>5. Probing(h)'
    <3>1. ASSUME h.probe # NoProbe
          PROVE  /\ h.lane[h.probe.slot].busy
                 /\ h.lane[h.probe.slot].dispatched = h.probe.at
                 /\ owner'[h.probe.slot].job = "place" =>
                        /\ owner'[h.probe.slot].tag = h.adverse
                        /\ owner'[h.probe.slot].business.attempt = h.probe.after
      <4>1. /\ h.lane[h.probe.slot].busy /\ h.lane[h.probe.slot].dispatched = h.probe.at
            /\ owner[h.probe.slot].job = "place" =>
                   /\ owner[h.probe.slot].tag = h.adverse
                   /\ owner[h.probe.slot].business.attempt = h.probe.after
        BY <2>1, <3>1 DEF Probing
      <4> QED
        BY <2>3, <2>4, <3>1, <4>1
    <3> QED
      BY <1>u, <3>1 DEF Probing
  <2>6. Answered(h)' = Answered(h)
    BY <2>3, <2>4 DEF Answered
  <2>7. Counted(h)'
    BY <2>1, <2>6 DEF Counted, Earned
  <2> QED
    BY <2>2, <2>5, <2>7
<1> QED
  BY <1>1, <1>2, <1>3, <1>4, <1>5 DEF IInv, Unraced

Recorded(r, b, g, k) ==
    r \in Business /\ r.attempt = b.attempt + 1 /\ r.outGen = g /\ r.outcome = k

LEMMA RecordType ==
    ASSUME NEW b \in Business, NEW g \in Nat, NEW k \in AllOutcomes
    PROVE  Recorded(record_business_outcome(b, g, k), b, g, k)
<1>1. /\ b.attempt \in Nat /\ b.failures \in Nat /\ b.slow \in Nat /\ b.noResponse \in Nat
      /\ b.noResponseGen \in Nat /\ b.slowRetired \in Nat /\ b.slowRetiredGen \in Nat
  BY DEF Business
<1> DEFINE fails == k \in {"Failure", "TransportUncertain"}
           silent == k = "TransportUncertain"
           slow == k \in {"SlowResponded", "SlowRetired"}
           retired == k = "SlowRetired"
           add(n, p) == IF p THEN n + 1 ELSE n
<1>2. /\ add(b.failures, fails) \in Nat /\ add(b.slow, slow) \in Nat
      /\ add(b.noResponse, silent) \in Nat /\ add(b.slowRetired, retired) \in Nat
  BY <1>1, Numbers
<1>3. /\ (IF silent THEN g ELSE b.noResponseGen) \in Nat
      /\ (IF retired THEN g ELSE b.slowRetiredGen) \in Nat
  BY <1>1
<1>4. record_business_outcome(b, g, k) =
        [attempt |-> b.attempt + 1, outGen |-> g, outcome |-> k,
         failures |-> add(b.failures, fails), slow |-> add(b.slow, slow),
         noResponse |-> add(b.noResponse, silent),
         noResponseGen |-> IF silent THEN g ELSE b.noResponseGen,
         slowRetired |-> add(b.slowRetired, retired),
         slowRetiredGen |-> IF retired THEN g ELSE b.slowRetiredGen]
  BY DEF record_business_outcome
<1> HIDE DEF add, fails, silent, slow, retired
<1>5. b.attempt + 1 \in Nat /\ k \in AllOutcomes \cup {"None"}
  BY <1>1, Numbers
<1> DEFINE r == record_business_outcome(b, g, k)
<1> HIDE DEF r
<1>6. /\ r.attempt = b.attempt + 1 /\ r.outGen = g /\ r.outcome = k
  BY <1>4, SMTT(40) DEF r
<1>7. r \in Business
  BY <1>1, <1>2, <1>3, <1>4, <1>5, SMTT(40) DEF r, Business
<1> QED
  BY <1>6, <1>7 DEF r, Recorded

LEMMA RepairIInv == ASSUME IInv, NEW i \in Lanes, Repair(i) PROVE IInv'
<1> DEFINE o == [owner[i] EXCEPT !.generation = @ + 1, !.quarantined = FALSE]
<1>t. owner \in [Lanes -> Owner] /\ owner[i] \in Owner
  BY DEF IInv, TypeOK
<1>n. owner[i].generation + 1 \in Nat
  BY <1>t, Numbers DEF Owner
<1>1. /\ o \in Owner /\ o.business = owner[i].business /\ o.job = owner[i].job
      /\ o.tag = owner[i].tag /\ o.occupied = owner[i].occupied /\ o.pc = owner[i].pc
  BY <1>t, <1>n DEF Owner
<1>2. owner' = [owner EXCEPT ![i] = o]
  BY <1>t DEF Repair, Owner
<1>3. /\ UNCHANGED <<now, h, rpc, resets, sent, good, proven>>
      /\ cell' = cell /\ raced' = raced /\ faults' = faults
  BY DEF Repair
<1>4. raced' \in BOOLEAN /\ faults' \in Nat /\ (raced => raced')
  BY <1>3 DEF IInv, TypeOK
<1>5. (o.job = "place" => o.occupied) /\ (o.pc = "run" => o.job = "place")
  BY <1>1 DEF IInv, Queued
<1> HIDE DEF o
<1> QED
  BY <1>1, <1>2, <1>3, <1>4, <1>5, QuietStep

LEMMA OwnerDiesIInv == ASSUME IInv, NEW i \in Lanes, OwnerDies(i) PROVE IInv'
<1> DEFINE o == [owner[i] EXCEPT !.alive = FALSE]
<1>t. owner \in [Lanes -> Owner] /\ owner[i] \in Owner
  BY DEF IInv, TypeOK
<1>1. /\ o \in Owner /\ o.business = owner[i].business /\ o.job = owner[i].job
      /\ o.tag = owner[i].tag /\ o.occupied = owner[i].occupied /\ o.pc = owner[i].pc
  BY <1>t DEF Owner
<1>2. owner' = [owner EXCEPT ![i] = o]
  BY <1>t DEF OwnerDies, Owner
<1>3. /\ UNCHANGED <<now, h, rpc, resets, sent, good, proven>>
      /\ cell' = cell /\ raced' = raced /\ Fault(1)
  BY DEF OwnerDies
<1>4. raced' \in BOOLEAN /\ (raced => raced')
  BY <1>3 DEF IInv, TypeOK
<1>5. (o.job = "place" => o.occupied) /\ (o.pc = "run" => o.job = "place")
  BY <1>1 DEF IInv, Queued
<1>6. faults' \in Nat
  <2>1. 1 \in Nat
    BY SMTT(40)
  <2> QED
    BY <1>3, <2>1, Faults DEF IInv
<1> HIDE DEF o
<1> QED
  BY <1>1, <1>2, <1>3, <1>4, <1>5, <1>6, QuietStep

LEMMA TopType ==
    ASSUME TypeOK, NEW i \in Lanes, NEW closed \in BOOLEAN, owner[i].pc \in {"top", "wait"},
           owner[i].job = "place" => owner[i].occupied
    PROVE  LET o == AfterTop(owner[i], closed) IN
           /\ o \in Owner /\ o.business = owner[i].business /\ o.job = owner[i].job
           /\ o.tag = owner[i].tag /\ o.occupied = owner[i].occupied /\ o.pc = "wait"
           /\ o.occupied \in BOOLEAN
           /\ \A busy \in BOOLEAN : Observation(o, busy, o.business) \in Observations
<1> DEFINE o == AfterTop(owner[i], closed)
<1>t. owner[i] \in Owner /\ now \in Nat
  BY DEF TypeOK
<1>1. (owner[i].quarantined \/ closed) \in BOOLEAN
  BY <1>t DEF Owner
<1>2. o = [owner[i] EXCEPT !.pc = "wait", !.quarantined = owner[i].quarantined \/ closed]
  BY <1>t DEF AfterTop, Owner
<1>3. /\ o \in Owner /\ o.business = owner[i].business /\ o.job = owner[i].job
      /\ o.tag = owner[i].tag /\ o.occupied = owner[i].occupied /\ o.pc = "wait"
  BY <1>t, <1>1, <1>2 DEF Owner
<1> HIDE DEF o
<1>4. /\ o.generation \in Nat /\ o.quarantined \in BOOLEAN /\ o.business \in Business
      /\ o.occupied \in BOOLEAN
  BY <1>3 DEF Owner
<1>5. \A busy \in BOOLEAN : Observation(o, busy, o.business) \in Observations
  BY <1>t, <1>4 DEF Observation, Observations
<1> QED
  BY <1>3, <1>4, <1>5 DEF o

LEMMA OwnerHeartbeatIInv ==
    ASSUME IInv, NEW i \in Lanes, NEW closed \in BOOLEAN, NEW early \in BOOLEAN,
           OwnerHeartbeat(i, closed, early)
    PROVE  IInv'
<1> DEFINE o == AfterTop(owner[i], closed)
           busy == o.occupied /\ ~early
           c == Observation(o, busy, o.business)
<1>t. TypeOK /\ owner[i].pc \in {"top", "wait"} /\ (owner[i].job = "place" => owner[i].occupied)
  BY DEF IInv, Queued, OwnerHeartbeat, AtTop
<1>1. /\ o \in Owner /\ o.business = owner[i].business /\ o.job = owner[i].job
      /\ o.tag = owner[i].tag /\ o.occupied = owner[i].occupied /\ o.pc = "wait"
      /\ o.occupied \in BOOLEAN
      /\ \A x \in BOOLEAN : Observation(o, x, o.business) \in Observations
  BY <1>t, TopType
<1>2. owner' = [owner EXCEPT ![i] = o] /\ cell' = [cell EXCEPT ![i] = c]
  BY DEF OwnerHeartbeat
<1>3. /\ UNCHANGED <<now, h, rpc, resets, sent, good, proven>>
      /\ raced' = (raced \/ early) /\ Fault(Count(closed) + Count(early))
  BY DEF OwnerHeartbeat, AtTop
<1>4. raced' \in BOOLEAN /\ (raced => raced')
  BY <1>3
<1>5. faults' \in Nat
  <2>1. Count(closed) + Count(early) \in Nat
    BY CountIs, SMTT(40)
  <2> QED
    BY <1>t, <1>3, <2>1, Faults
<1>6. c \in Observations /\ c.at = now /\ c.business = o.business /\ c.busy = busy
  <2>1. busy \in BOOLEAN
    OBVIOUS
  <2>2. c.at = now /\ c.business = o.business /\ c.busy = busy
    BY DEF Observation
  <2> QED
    BY <1>1, <2>1, <2>2
<1>7. now <= now
  BY <1>t, SMTT(40) DEF TypeOK
<1>8. ~c.busy /\ ~raced' => o.job # "place"
  BY <1>t, <1>1, <1>3, <1>6
<1> HIDE DEF o, c
<1> QED
  BY <1>t, <1>1, <1>2, <1>3, <1>4, <1>5, <1>6, <1>7, <1>8, QuietStep

LEMMA CancelPublishIInv ==
    ASSUME IInv, NEW i \in Lanes, NEW closed \in BOOLEAN, CancelPublish(i, closed) PROVE IInv'
<1> DEFINE o == AfterTop(owner[i], closed)
           c == Observation(o, o.occupied, o.business)
<1>t. TypeOK /\ owner[i].pc \in {"top", "wait"} /\ (owner[i].job = "place" => owner[i].occupied)
  BY DEF IInv, Queued, CancelPublish, AtTop
<1>1. /\ o \in Owner /\ o.business = owner[i].business /\ o.job = owner[i].job
      /\ o.tag = owner[i].tag /\ o.occupied = owner[i].occupied /\ o.pc = "wait"
      /\ o.occupied \in BOOLEAN
      /\ \A x \in BOOLEAN : Observation(o, x, o.business) \in Observations
  BY <1>t, TopType
<1>2. owner' = [owner EXCEPT ![i] = o] /\ cell' = [cell EXCEPT ![i] = c]
  BY DEF CancelPublish
<1>3. /\ UNCHANGED <<now, h, rpc, resets, sent, good, proven>>
      /\ raced' = raced /\ Fault(Count(closed))
  BY DEF CancelPublish, AtTop
<1>4. raced' \in BOOLEAN /\ (raced => raced')
  BY <1>t, <1>3 DEF TypeOK
<1>5. faults' \in Nat
  BY <1>t, <1>3, CountIs, Faults
<1>6. c \in Observations /\ c.at = now /\ c.business = o.business /\ c.busy = o.occupied
  <2>1. c.at = now /\ c.business = o.business /\ c.busy = o.occupied
    BY DEF Observation
  <2> QED
    BY <1>1, <2>1
<1>7. now <= now
  BY <1>t, SMTT(40) DEF TypeOK
<1>8. ~c.busy /\ ~raced' => o.job # "place"
  BY <1>t, <1>1, <1>6
<1> HIDE DEF o, c
<1> QED
  BY <1>t, <1>1, <1>2, <1>3, <1>4, <1>5, <1>6, <1>7, <1>8, QuietStep

LEMMA OwnerPublishInFlightIInv ==
    ASSUME IInv, NEW i \in Lanes, OwnerPublishInFlight(i) PROVE IInv'
<1> DEFINE o == owner[i]
           c == Observation(o, TRUE, o.business)
<1>t. TypeOK /\ owner \in [Lanes -> Owner] /\ o \in Owner
  BY DEF IInv, TypeOK
<1>1. (o.job = "place" => o.occupied) /\ (o.pc = "run" => o.job = "place")
  BY DEF IInv, Queued
<1>2. owner' = [owner EXCEPT ![i] = o] /\ cell' = [cell EXCEPT ![i] = c]
  BY <1>t DEF OwnerPublishInFlight
<1>3. /\ UNCHANGED <<now, h, rpc, resets, sent, good, proven>>
      /\ raced' = raced /\ faults' = faults
  BY DEF OwnerPublishInFlight
<1>4. raced' \in BOOLEAN /\ (raced => raced') /\ faults' \in Nat
  BY <1>t, <1>3 DEF TypeOK
<1>5. /\ o.generation \in Nat /\ o.quarantined \in BOOLEAN /\ o.business \in Business
      /\ now \in Nat
  BY <1>t DEF Owner, TypeOK
<1>6. c \in Observations
  BY <1>5 DEF Observation, Observations
<1>7. c.at = now /\ c.business = o.business /\ c.busy = TRUE
  BY DEF Observation
<1>8. now <= now
  BY <1>5, SMTT(40)
<1> HIDE DEF c
<1> QED
  BY <1>t, <1>1, <1>2, <1>3, <1>4, <1>6, <1>7, <1>8, QuietStep

LEMMA OwnerTakesIInv ==
    ASSUME IInv, NEW i \in Lanes, NEW stale \in BOOLEAN, OwnerTakes(i, stale) PROVE IInv'
<1> DEFINE p == owner[i]
           current == p.jobGen = p.generation
           q == [p EXCEPT !.quarantined = p.quarantined \/ current]
           o == IF p.job = "refresh" THEN Released(i, q)
                ELSE IF stale \/ p.quarantined \/ ~current THEN Released(i, p)
                ELSE [p EXCEPT !.pc = "run"]
<1>t. TypeOK /\ owner \in [Lanes -> Owner] /\ p \in Owner
  BY DEF IInv, TypeOK
<1>1. owner' = [owner EXCEPT ![i] = o]
  BY <1>t DEF OwnerTakes, Owner
<1>2. /\ p.job # "None" /\ Fault(Count(stale)) /\ cell' = cell /\ raced' = raced
      /\ UNCHANGED <<now, h, rpc, resets, sent, good, proven>>
  BY DEF OwnerTakes
<1>3. raced' \in BOOLEAN /\ (raced => raced') /\ faults' \in Nat
  BY <1>t, <1>2, CountIs, Faults DEF TypeOK
<1>4. q \in Owner /\ q.business = p.business
  <2>1. (p.quarantined \/ current) \in BOOLEAN
    BY <1>t DEF Owner
  <2> QED
    BY <1>t, <2>1 DEF Owner
<1>5. ASSUME NEW r \in Owner, r.business = p.business
      PROVE  /\ Released(i, r) \in Owner /\ Released(i, r).business = p.business
             /\ Released(i, r).job = "None" /\ Released(i, r).pc # "run"
  <2>1. Top(i) \in {"top", "wait", "run"} /\ Top(i) # "run"
    BY DEF Top
  <2> QED
    BY <1>5, <2>1, Numbers DEF Released, Owner
<1>6. CASE o = Released(i, q) \/ o = Released(i, p)
  <2>1. o \in Owner /\ o.business = p.business /\ o.job = "None" /\ o.pc # "run"
    BY <1>t, <1>4, <1>5, <1>6
  <2> HIDE DEF o, p
  <2> QED
    BY <1>1, <1>2, <1>3, <2>1, QuietStep DEF p
<1>7. CASE o = [p EXCEPT !.pc = "run"] /\ p.job # "refresh"
  <2>1. /\ o \in Owner /\ o.business = p.business /\ o.job = p.job /\ o.tag = p.tag
        /\ o.occupied = p.occupied
    <3> HIDE DEF o
    <3> QED
      BY <1>t, <1>7 DEF Owner
  <2>2. p.job = "place" /\ p.occupied
    <3>1. p.job = "place"
      BY <1>t, <1>2, <1>7 DEF Owner
    <3> QED
      BY <3>1 DEF IInv, Queued
  <2> HIDE DEF o
  <2> QED
    BY <1>1, <1>2, <1>3, <2>1, <2>2, QuietStep
<1> QED
  BY <1>6, <1>7

\* The router's knowledge is untouched when a Cancel lane records an outcome.
LEMMA CancelCompletesIInv ==
    ASSUME IInv, NEW c \in Cancel, NEW k \in Outcomes, CancelCompletes(c, k) PROVE IInv'
<1> DEFINE p == owner[c]
           b == record_business_outcome(p.business, p.generation, k)
           o == [p EXCEPT !.business = b,
                          !.quarantined = @ \/ k \in {"TransportUncertain", "SlowRetired"}]
<1>l. c \in Lanes /\ c \notin Fast /\ k \in AllOutcomes
  BY AdmissionAssumption, RouterAssumption DEF Lanes, AllOutcomes
<1>t. TypeOK /\ owner \in [Lanes -> Owner] /\ p \in Owner
  BY <1>l DEF IInv, TypeOK
<1>u. /\ now' = now /\ h' = h /\ rpc' = rpc /\ resets' = resets /\ sent' = sent
      /\ good' = good /\ cell' = cell /\ raced' = raced /\ Fault(Adverse(k))
      /\ IF k = "Healthy" THEN proven' = proven \cup {<<c, p.generation>>}
         ELSE proven' = proven
  BY DEF CancelCompletes
<1>b. b \in Business /\ b.outGen = p.generation /\ b.outcome = k
  <2>1. p.business \in Business /\ p.generation \in Nat
    BY <1>t DEF Owner
  <2>2. Recorded(b, p.business, p.generation, k)
    BY <1>l, <2>1, RecordType
  <2> QED
    BY <2>2 DEF Recorded
<1>o. owner' = [owner EXCEPT ![c] = o]
  BY <1>l, <1>t DEF CancelCompletes, Owner
<1> HIDE DEF b
<1>1. o \in Owner /\ o.business = b /\ o.job = p.job /\ o.occupied = p.occupied /\ o.pc = p.pc
  <2>1. (p.quarantined \/ k \in {"TransportUncertain", "SlowRetired"}) \in BOOLEAN
    BY <1>t DEF Owner
  <2> QED
    BY <1>t, <1>b, <2>1 DEF Owner
<1> HIDE DEF o
<1>2. owner'[c] = o /\ \A j \in Lanes \ {c} : owner'[j] = owner[j]
  BY <1>l, <1>t, <1>o
<1>3. TypeOK'
  <2>1. owner' \in [Lanes -> Owner]
    BY <1>t, <1>o, <1>1
  <2>2. faults' \in Nat
    BY <1>t, <1>u, CountIs, Faults DEF Adverse
  <2> QED
    BY <1>t, <1>u, <2>1, <2>2 DEF TypeOK
<1>4. Queued'
  <2>1. (o.job = "place" => o.occupied) /\ (o.pc = "run" => o.job = "place")
    BY <1>l, <1>1 DEF IInv, Queued
  <2> QED
    BY <1>u, <1>2, <2>1 DEF IInv, Queued
<1>5. Known(h)'
  <2>1. Known(h) /\ \A x \in proven : x \in proven'
    BY <1>u DEF IInv
  <2>2. owner'[c].business.outcome = "Healthy" => <<c, owner'[c].business.outGen>> \in proven'
    BY <1>u, <1>b, <1>1, <1>2
  <2>3. \A i \in Lanes :
          /\ h'.lane[i].verified => <<i, h'.lane[i].generation>> \in proven'
          /\ cell'[i] # NoObservation /\ cell'[i].business.outcome = "Healthy" =>
                 <<i, cell'[i].business.outGen>> \in proven'
    BY <1>u, <2>1 DEF Known
  <2>4. \A i \in Lanes \ {c} : owner'[i].business.outcome = "Healthy" =>
                                 <<i, owner'[i].business.outGen>> \in proven'
    BY <1>2, <2>1 DEF Known
  <2> QED
    BY <2>2, <2>3, <2>4 DEF Known
<1>6. Cached(h)'
  BY <1>u, UnchangedCached DEF IInv
<1>7. ASSUME ~raced' PROVE (\A f \in Fast : Tracked(h, f))' /\ Probing(h)' /\ Counted(h)'
  <2>1. (\A f \in Fast : Tracked(h, f)) /\ Probing(h) /\ Counted(h)
    BY <1>u, <1>7 DEF IInv, Unraced
  <2>2. \A f \in Fast : owner'[f] = owner[f]
    BY <1>l, <1>2 DEF Lanes
  <2>3. (\A f \in Fast : Tracked(h, f))'
    BY <1>u, <2>1, <2>2 DEF Tracked
  <2>4. h.probe # NoProbe => h.probe.slot \in Fast
    BY <1>t DEF TypeOK, Admission, Probe
  <2>5. Probing(h)'
    BY <1>u, <2>1, <2>2, <2>4 DEF Probing
  <2>6. Answered(h)' = Answered(h)
    BY <1>u, <2>2, <2>4 DEF Answered
  <2>7. Counted(h)'
    BY <1>u, <2>1, <2>6 DEF Counted, Earned
  <2> QED
    BY <2>3, <2>5, <2>7
<1> QED
  BY <1>3, <1>4, <1>5, <1>6, <1>7 DEF IInv, Unraced

\* Appending to good: what was earned stays, and the new tag is one more.
LEMMA EarnedAppend ==
    ASSUME good \in Seq(Nat), NEW n \in Nat, good' = Append(good, n)
    PROVE  (\A m : Earned(m)' >= Earned(m)) /\ Earned(n)' = Earned(n) + 1
<1> DEFINE L == Len(good)
           S(m) == {k \in DOMAIN good : good[k] = m}
           T(m) == {k \in DOMAIN good' : good'[k] = m}
<1>1. /\ L \in Nat /\ DOMAIN good = 1 .. L /\ DOMAIN good' = 1 .. (L + 1)
      /\ good'[L + 1] = n /\ \A k \in 1 .. L : good'[k] = good[k]
  BY SMTT(40)
<1>2. /\ L + 1 \in 1 .. (L + 1) /\ L + 1 \notin 1 .. L
      /\ \A k \in 1 .. (L + 1) : k \in 1 .. L \/ k = L + 1
      /\ \A k \in 1 .. L : k \in 1 .. (L + 1)
  BY <1>1, SMTT(40)
<1>3. T(n) = S(n) \cup {L + 1} /\ L + 1 \notin S(n)
  BY <1>1, <1>2
<1>4. \A m : m # n => T(m) = S(m)
  BY <1>1, <1>2
<1>5. \A m : IsFiniteSet(S(m))
  <2>1. IsFiniteSet(DOMAIN good)
    BY <1>1, FS_Interval, SMTT(40)
  <2> QED
    BY <2>1, FS_Subset
<1>6. \A m : Earned(m) = Cardinality(S(m)) /\ Earned(m)' = Cardinality(T(m))
  BY DEF Earned
<1>7. \A m : Earned(m) \in Nat
  BY EarnedType
<1> HIDE DEF S, T
<1>8. Cardinality(S(n) \cup {L + 1}) = Cardinality(S(n)) + 1
  BY <1>3, <1>5, FS_AddElement
<1>9. Earned(n)' = Earned(n) + 1
  BY <1>3, <1>6, <1>8
<1>10. ASSUME NEW m PROVE Earned(m)' >= Earned(m)
  <2>1. Earned(m)' = Earned(m) \/ Earned(m)' = Earned(m) + 1
    BY <1>4, <1>6, <1>9
  <2>2. Earned(m) \in Nat
    BY <1>7
  <2> QED
    BY <2>1, <2>2, SMTT(40)
<1> QED
  BY <1>9, <1>10

LEMMA EarnedTypes == good \in Seq(Nat) => \A n : Earned(n) \in Nat
BY EarnedType

\* The reply to a place: its outcome is recorded, and a probe's healthy one is
\* earned at once, though not yet reported.
LEMMA OwnerCompletesIInv ==
    ASSUME IInv, NEW f \in Fast, NEW k \in Outcomes, OwnerCompletes(f, k) PROVE IInv'
<1> DEFINE p == owner[f]
           b == record_business_outcome(p.business, p.jobGen, k)
           q == [p EXCEPT !.business = b,
                          !.quarantined = @ \/ k \in {"TransportUncertain", "SlowRetired"}]
           o == Released(f, q)
<1>l. f \in Lanes /\ k \in AllOutcomes
  BY RouterAssumption DEF Lanes, AllOutcomes
<1>t. TypeOK /\ owner \in [Lanes -> Owner] /\ p \in Owner
  BY <1>l DEF IInv, TypeOK
<1>p. p.job = "place"
  BY <1>l DEF IInv, Queued, OwnerCompletes
<1>u. /\ now' = now /\ h' = h /\ rpc' = rpc /\ resets' = resets /\ sent' = sent
      /\ cell' = cell /\ raced' = raced /\ Fault(Adverse(k))
  BY DEF OwnerCompletes
<1>g. \/ /\ k = "Healthy" /\ good' = Append(good, p.tag)
         /\ proven' = proven \cup {<<f, p.jobGen>>}
      \/ k # "Healthy" /\ good' = good /\ proven' = proven
  BY DEF OwnerCompletes
<1>n. p.business \in Business /\ p.jobGen \in Nat /\ p.tag \in Nat /\ p.business.attempt \in Nat
  BY <1>t DEF Owner, Business
<1>b. b \in Business /\ b.attempt = p.business.attempt + 1 /\ b.outGen = p.jobGen /\ b.outcome = k
  <2>1. Recorded(b, p.business, p.jobGen, k)
    BY <1>l, <1>n, RecordType
  <2> QED
    BY <2>1 DEF Recorded
<1>o. owner' = [owner EXCEPT ![f] = o]
  BY <1>l, <1>t DEF OwnerCompletes, Owner
<1> HIDE DEF b
<1>1. q \in Owner /\ q.business = b
  <2>1. (p.quarantined \/ k \in {"TransportUncertain", "SlowRetired"}) \in BOOLEAN
    BY <1>t DEF Owner
  <2> QED
    BY <1>t, <1>b, <2>1 DEF Owner
<1> HIDE DEF q
<1>2. o \in Owner /\ o.business = b /\ o.job = "None" /\ o.pc # "run"
  <2>1. Top(f) \in {"top", "wait", "run"} /\ Top(f) # "run"
    BY DEF Top
  <2> QED
    BY <1>1, <2>1, Numbers DEF Released, Owner
<1> HIDE DEF o
<1>3. owner'[f] = o /\ \A j \in Lanes \ {f} : owner'[j] = owner[j]
  BY <1>l, <1>t, <1>o
<1>4. TypeOK'
  <2>1. owner' \in [Lanes -> Owner]
    BY <1>t, <1>o, <1>2
  <2>2. faults' \in Nat
    BY <1>t, <1>u, CountIs, Faults DEF Adverse
  <2>3. good' \in Seq(Nat)
    <3>1. good \in Seq(Nat)
      BY <1>t DEF TypeOK
    <3>2. \A n \in Nat : Append(good, n) \in Seq(Nat)
      BY <3>1, SMTT(40)
    <3> QED
      BY <1>g, <1>n, <3>1, <3>2
  <2> QED
    BY <1>t, <1>u, <2>1, <2>2, <2>3 DEF TypeOK
<1>5. Queued'
  BY <1>u, <1>2, <1>3 DEF IInv, Queued
<1>6. Known(h)'
  <2>1. Known(h) /\ \A x \in proven : x \in proven'
    BY <1>g DEF IInv
  <2>2. owner'[f].business.outcome = "Healthy" => <<f, owner'[f].business.outGen>> \in proven'
    BY <1>g, <1>b, <1>2, <1>3
  <2>3. \A i \in Lanes :
          /\ h'.lane[i].verified => <<i, h'.lane[i].generation>> \in proven'
          /\ cell'[i] # NoObservation /\ cell'[i].business.outcome = "Healthy" =>
                 <<i, cell'[i].business.outGen>> \in proven'
    BY <1>u, <2>1 DEF Known
  <2>4. \A i \in Lanes \ {f} : owner'[i].business.outcome = "Healthy" =>
                                 <<i, owner'[i].business.outGen>> \in proven'
    BY <1>3, <2>1 DEF Known
  <2> QED
    BY <2>2, <2>3, <2>4 DEF Known
<1>7. Cached(h)'
  BY <1>u, UnchangedCached DEF IInv
<1>8. ASSUME ~raced' PROVE (\A g \in Fast : Tracked(h, g))' /\ Probing(h)' /\ Counted(h)'
  <2>1. (\A g \in Fast : Tracked(h, g)) /\ Probing(h) /\ Counted(h)
    BY <1>u, <1>8 DEF IInv, Unraced
  <2>2. ASSUME NEW g \in Fast PROVE Tracked(h, g)'
    <3>1. CASE g # f
      BY <1>u, <1>3, <2>1, <3>1 DEF Tracked, Lanes
    <3>2. CASE g = f
      <4>1. h.lane[f].busy /\ ~(/\ cell[f] # NoObservation /\ ~cell[f].busy
                                /\ AfterDispatch(h.lane[f], cell[f]))
        BY <1>p, <2>1 DEF Tracked
      <4> QED
        BY <1>u, <1>2, <1>3, <3>2, <4>1 DEF Tracked
    <3> QED
      BY <3>1, <3>2
  <2>3. h.probe # NoProbe => h.probe \in Probe /\ h.probe.slot \in Fast /\ h.probe.slot \in Lanes
    BY <1>t DEF TypeOK, Admission, Probe, Lanes
  <2>4. Probing(h)'
    <3>1. ASSUME h.probe # NoProbe, h.probe.slot # f PROVE Probing(h)'
      <4>1. owner'[h.probe.slot] = owner[h.probe.slot]
        BY <1>3, <2>3, <3>1
      <4> QED
        BY <1>u, <2>1, <4>1 DEF Probing
    <3>2. ASSUME h.probe # NoProbe, h.probe.slot = f PROVE Probing(h)'
      BY <1>u, <1>2, <1>3, <2>1, <3>2 DEF Probing
    <3>3. CASE h.probe = NoProbe
      BY <1>u, <3>3 DEF Probing
    <3> QED
      BY <3>1, <3>2, <3>3
  <2>5. /\ good \in Seq(Nat) /\ h.successes \in Nat /\ h.adverse \in Nat
        /\ max(recovery_successes, 1) \in Nat
    BY <1>t, ConstantTypes DEF TypeOK, Admission
  <2>6. \A n : Earned(n) \in Nat /\ Earned(n)' \in Nat
    <3>1. \A n : Earned(n) \in Nat
      BY <2>5, EarnedType
    <3>2. (good \in Seq(Nat) => \A n : Earned(n) \in Nat)'
      BY EarnedTypes, PTL
    <3> QED
      BY <1>4, <3>1, <3>2 DEF TypeOK
  <2>7. \A n : Earned(n)' >= Earned(n)
    <3>1. CASE good' = good
      <4>1. \A n : Earned(n)' = Earned(n)
        BY <3>1 DEF Earned
      <4> QED
        BY <2>6, <4>1, SMTT(40)
    <3>2. CASE good' = Append(good, p.tag)
      BY <1>n, <2>5, <3>2, EarnedAppend
    <3> QED
      BY <1>g, <3>1, <3>2
  <2>8. ~h.recovery_required => Earned(h.ended)' >= max(recovery_successes, 1)
    <3>1. ~h.recovery_required => Earned(h.ended) >= max(recovery_successes, 1)
      BY <2>1 DEF Counted
    <3> QED
      BY <1>u, <2>5, <2>6, <2>7, <3>1, SMTT(40)
  <2>9. Earned(h.adverse)' >= h.successes + Count(Answered(h)')
    <3>1. Earned(h.adverse) >= h.successes + Count(Answered(h))
      BY <2>1 DEF Counted
    <3>2. \A e, d, s \in Nat : e >= s /\ d >= e => d >= s
      BY SMTT(40)
    <3>3. /\ Count(Answered(h)) \in Nat /\ Count(Answered(h)') \in Nat
          /\ h.successes + Count(Answered(h)) \in Nat
      <4>1. \A m, n \in Nat : m + n \in Nat
        BY SMTT(40)
      <4> QED
        BY <2>5, <4>1, CountIs
    <3>5. CASE Answered(h)' = Answered(h)
      <4>1. Earned(h.adverse)' >= Earned(h.adverse)
        BY <1>u, <2>7
      <4>2. Earned(h.adverse) \in Nat /\ Earned(h.adverse)' \in Nat
        BY <1>u, <2>6
      <4> QED
        BY <3>1, <3>2, <3>3, <3>5, <4>1, <4>2
    <3>6. CASE h.probe # NoProbe /\ h.probe.slot = f
      <4>1. p.tag = h.adverse /\ p.business.attempt = h.probe.after
        BY <1>p, <2>1, <3>6 DEF Probing
      <4>2. ~(p.business.attempt > h.probe.after)
        BY <1>n, <4>1, SMTT(40)
      <4>3. ~Answered(h)
        BY <3>6, <4>2 DEF Answered
      <4>4. CASE k = "Healthy"
        <5> PICK t \in Nat : t = p.tag
          BY <1>n
        <5>1. Earned(t)' = Earned(t) + 1
          BY <1>g, <2>5, <4>4, EarnedAppend
        <5>2. Earned(h.adverse)' = Earned(h.adverse) + 1
          BY <1>u, <4>1, <5>1
        <5>3. \A e, s \in Nat : e >= s + 0 => e + 1 >= s + 1 /\ e + 1 >= s + 0
          BY SMTT(40)
        <5>4. Earned(h.adverse) >= h.successes + 0
          BY <3>1, <4>3 DEF Count
        <5>5. Count(Answered(h)') = 0 \/ Count(Answered(h)') = 1
          BY DEF Count
        <5> QED
          BY <2>5, <2>6, <5>2, <5>3, <5>4, <5>5
      <4>5. CASE k # "Healthy"
        <5>1. Answered(h)' = Answered(h)
          BY <1>u, <1>b, <1>2, <1>3, <3>6, <4>3, <4>5 DEF Answered
        <5> QED
          BY <3>5, <5>1
      <4> QED
        BY <4>4, <4>5
    <3>7. CASE h.probe = NoProbe \/ h.probe.slot # f
      <4>1. Answered(h)' = Answered(h)
        BY <1>u, <1>3, <2>3, <3>7 DEF Answered
      <4> QED
        BY <3>5, <4>1
    <3> QED
      BY <3>6, <3>7
  <2>10. Counted(h)'
    BY <1>u, <2>8, <2>9 DEF Counted
  <2> QED
    BY <2>2, <2>4, <2>10
<1> QED
  BY <1>4, <1>5, <1>6, <1>7, <1>8 DEF IInv, Unraced

-----------------------------------------------------------------------------
(* Steps of the router *)

\* The router replaces h, reads observations and hands out refreshes, but no place.
LEMMA RouterStep ==
    ASSUME TypeOK, NEW c, Good(c), h' = c, now' = now, good' = good, proven' = proven,
           raced' = raced,
           \A i \in Lanes : /\ owner'[i].business = owner[i].business
                            /\ owner'[i].job = "place" =>
                                 owner[i].job = "place" /\ owner'[i].tag = owner[i].tag
                            /\ cell'[i] = cell[i] \/ cell'[i] = NoObservation
    PROVE  h' \in Admission /\ Known(h)' /\ Unraced(h)' /\ Cached(h)'
<1>1. c \in Admission /\ Known(c) /\ Unraced(c) /\ Cached(c)
  BY DEF Good
<1>2. Known(h)'
  BY <1>1 DEF Known
<1>3. Cached(h)'
  BY <1>1 DEF Cached
<1>4. ASSUME ~raced' PROVE (\A f \in Fast : Tracked(h, f))' /\ Probing(h)' /\ Counted(h)'
  <2>1. (\A f \in Fast : Tracked(c, f)) /\ Probing(c) /\ Counted(c)
    BY <1>1, <1>4 DEF Unraced
  <2>2. ASSUME NEW f \in Fast PROVE Tracked(h, f)'
    <3>1. f \in Lanes /\ Tracked(c, f)
      BY <2>1 DEF Lanes
    <3> QED
      BY <3>1 DEF Tracked
  <2>3. c.probe # NoProbe => c.probe.slot \in Lanes
    BY <1>1 DEF Admission, Probe, Lanes
  <2>4. Probing(h)'
    BY <2>1, <2>3 DEF Probing
  <2>5. Answered(h)' = Answered(c)
    BY <2>3 DEF Answered
  <2>6. Counted(h)'
    BY <2>1, <2>5 DEF Counted, Earned
  <2> QED
    BY <2>2, <2>4, <2>6
<1> QED
  BY <1>1, <1>2, <1>3, <1>4 DEF Unraced

\* A state in which only the router's position may change.
LEMMA IdleStep ==
    ASSUME IInv, NEW c, Good(c), h' = c, now' = now, resets' = resets, cell' = cell,
           owner' = owner, sent' = sent, faults' = faults, raced' = raced, good' = good,
           proven' = proven, rpc' \in {"idle", "selecting"}
    PROVE  IInv'
<1>1. TypeOK
  BY DEF IInv
<1>2. h' \in Admission /\ Known(h)' /\ Unraced(h)' /\ Cached(h)'
  BY <1>1, RouterStep
<1>3. TypeOK'
  BY <1>1, <1>2 DEF TypeOK
<1>4. Queued'
  BY DEF IInv, Queued
<1> QED
  BY <1>2, <1>3, <1>4 DEF IInv

LEMMA GoodNow == ASSUME IInv PROVE Good(h)
BY DEF IInv, TypeOK, Good

LEMMA SkipRefreshIInv == ASSUME IInv, SkipRefresh PROVE IInv'
<1> PICK c : c = h
  OBVIOUS
<1>1. Good(c)
  BY GoodNow
<1>2. /\ h' = c /\ now' = now /\ resets' = resets /\ cell' = cell /\ owner' = owner
      /\ sent' = sent /\ faults' = faults /\ raced' = raced /\ good' = good
      /\ proven' = proven /\ rpc' \in {"idle", "selecting"}
  BY DEF SkipRefresh
<1> QED
  BY <1>1, <1>2, IdleStep

LEMMA StutterIInv == ASSUME IInv, UNCHANGED vars PROVE IInv'
<1> PICK c : c = h
  OBVIOUS
<1>1. Good(c)
  BY GoodNow
<1>2. /\ h' = c /\ now' = now /\ resets' = resets /\ cell' = cell /\ owner' = owner
      /\ sent' = sent /\ faults' = faults /\ raced' = raced /\ good' = good
      /\ proven' = proven /\ rpc' = rpc
  BY DEF vars
<1>3. rpc' \in {"idle", "selecting"}
  BY <1>2 DEF IInv, TypeOK
<1> QED
  BY <1>1, <1>2, <1>3, IdleStep

LEMMA RefuseIInv == ASSUME IInv, Refuse PROVE IInv'
<1>1. Good(refresh(h, now))
  BY GoodNow, GoodRefresh DEF IInv, TypeOK
<1> PICK c : c = refresh(h, now)
  OBVIOUS
<1>2. /\ h' = c /\ now' = now /\ resets' = resets /\ cell' = cell /\ owner' = owner
      /\ sent' = sent /\ faults' = faults /\ raced' = raced /\ good' = good
      /\ proven' = proven /\ rpc' \in {"idle", "selecting"}
  BY DEF Refuse
<1> QED
  BY <1>1, <1>2, IdleStep

LEMMA TickIInv == ASSUME IInv, Tick PROVE IInv'
<1>u. /\ h' = h /\ now' = now + 1 /\ resets' = resets /\ cell' = cell /\ owner' = owner
      /\ sent' = sent /\ faults' = faults /\ raced' = raced /\ good' = good
      /\ proven' = proven /\ rpc' = rpc
  BY DEF Tick
<1>1. TypeOK'
  BY <1>u, Numbers DEF IInv, TypeOK
<1>2. Queued'
  <2>1. \A i \in Lanes : cell[i] # NoObservation => cell[i].at \in Nat
    BY DEF IInv, TypeOK, Observations
  <2>2. \A n, m \in Nat : n <= m => n <= m + 1
    BY SMTT(40)
  <2>3. now \in Nat
    BY DEF IInv, TypeOK
  <2> QED
    BY <1>u, <2>1, <2>2, <2>3 DEF IInv, Queued
<1>3. Known(h)' /\ Unraced(h)'
  <2>1. Known(h)'
    BY <1>u DEF IInv, Known
  <2>2. Unraced(h)'
    BY <1>u DEF IInv, Unraced, Tracked, Probing, Counted, Answered, Earned
  <2> QED
    BY <2>1, <2>2
<1>4. Cached(h)'
  <2> PICK c : c = h
    OBVIOUS
  <2>1. c \in Admission /\ now \in Nat /\ Cached(c)
    BY DEF IInv, TypeOK
  <2>2. Cached(c)'
    BY <1>u, <2>1, StillCached
  <2>3. h' = c
    BY <1>u
  <2> QED
    BY <2>2, <2>3
<1> QED
  BY <1>1, <1>2, <1>3, <1>4 DEF IInv

\* refresh_health: what it drains is Good, and its refreshes go to idle owners.
LEMMA RefreshHealthIInv ==
    ASSUME IInv, NEW reset \in BOOLEAN, NEW next \in {"idle", "selecting"},
           RefreshHealth(reset, next)
    PROVE  IInv'
<1> DEFINE drained == Drained[Len(LaneOrder)]
           judged == IF reset THEN retire_transport_generations(drained, now) ELSE drained
           taken == [judged EXCEPT !.reset_pending = FALSE]
           pending == IF judged.reset_pending
                      THEN [i \in Lanes |-> judged.lane[i].retired] ELSE resets
           takes(i) == pending[i] # NoGen /\ ~owner[i].occupied /\ owner[i].alive
           given(i) == [owner[i] EXCEPT !.occupied = TRUE, !.job = "refresh",
                                        !.jobGen = pending[i]]
<1>t. /\ TypeOK /\ now \in Nat /\ good \in Seq(Nat) /\ owner \in [Lanes -> Owner]
      /\ resets \in [Lanes -> GenOrNone]
  BY DEF IInv, TypeOK
<1>u. /\ now' = now /\ good' = good /\ proven' = proven /\ raced' = raced /\ sent' = sent
      /\ rpc' = next /\ cell' = [i \in Lanes |-> NoObservation] /\ Fault(Count(reset))
      /\ h' = refresh(taken, now)
      /\ resets' = [i \in Lanes |-> IF takes(i) THEN NoGen ELSE pending[i]]
      /\ owner' = [i \in Lanes |-> IF takes(i) THEN given(i) ELSE owner[i]]
  BY DEF RefreshHealth
<1>1. Good(judged)
  <2>1. Good(drained)
    BY <1>t, GoodNow, GoodDrained
  <2> HIDE DEF drained
  <2> QED
    BY <1>t, <2>1, GoodRetire
<1> HIDE DEF judged
<1>2. Good(taken)
  BY <1>t, <1>1, GoodTaken
<1> HIDE DEF taken
<1>3. Good(refresh(taken, now))
  BY <1>t, <1>2, GoodRefresh
<1>4. pending \in [Lanes -> GenOrNone] /\ \A i \in Lanes : pending[i] # NoGen => pending[i] \in Nat
  <2>1. \A i \in Lanes : judged.lane[i].retired \in GenOrNone
    BY <1>1, LaneStates DEF Good, LaneState
  <2>2. pending \in [Lanes -> GenOrNone]
    BY <1>t, <2>1
  <2> QED
    BY <2>2 DEF GenOrNone
<1> HIDE DEF pending
<1>5. ASSUME NEW i \in Lanes, takes(i)
      PROVE  /\ given(i) \in Owner /\ given(i).business = owner[i].business
             /\ given(i).job = "refresh" /\ given(i).pc = owner[i].pc /\ given(i).occupied = TRUE
  <2>1. owner[i] \in Owner /\ pending[i] \in Nat
    BY <1>t, <1>4, <1>5
  <2> QED
    BY <2>1 DEF Owner
<1>6. ASSUME NEW i \in Lanes, takes(i) PROVE owner[i].pc # "run" /\ owner[i].job # "place"
  BY <1>6 DEF IInv, Queued
<1>7. \A i \in Lanes : owner'[i] = IF takes(i) THEN given(i) ELSE owner[i]
  BY <1>u
<1> HIDE DEF given, takes
<1>8. \A i \in Lanes : /\ owner'[i].business = owner[i].business
                       /\ owner'[i].job = "place" =>
                            owner[i].job = "place" /\ owner'[i].tag = owner[i].tag
                       /\ cell'[i] = cell[i] \/ cell'[i] = NoObservation
  BY <1>u, <1>5, <1>7
<1>9. h' \in Admission /\ Known(h)' /\ Unraced(h)' /\ Cached(h)'
  <2> PICK c : c = refresh(taken, now)
    OBVIOUS
  <2>1. Good(c) /\ h' = c
    BY <1>u, <1>3
  <2> QED
    BY <1>t, <1>u, <1>8, <2>1, RouterStep
<1>10. TypeOK'
  <2>1. owner' \in [Lanes -> Owner]
    BY <1>t, <1>u, <1>5
  <2>2. resets' \in [Lanes -> GenOrNone]
    BY <1>u, <1>4 DEF GenOrNone
  <2>3. cell' \in [Lanes -> Observations \cup {NoObservation}]
    BY <1>u
  <2>4. faults' \in Nat
    BY <1>t, <1>u, CountIs, Faults
  <2> QED
    BY <1>t, <1>u, <1>9, <2>1, <2>2, <2>3, <2>4 DEF TypeOK
<1>11. Queued'
  <2>1. \A i \in Lanes : cell'[i] = NoObservation
    BY <1>u
  <2>2. ASSUME NEW i \in Lanes
        PROVE  /\ owner'[i].job = "place" => owner'[i].occupied
               /\ owner'[i].pc = "run" => owner'[i].job = "place"
    <3>1. CASE takes(i)
      BY <1>5, <1>6, <1>7, <3>1
    <3>2. CASE ~takes(i)
      <4>1. owner'[i] = owner[i]
        BY <1>7, <3>2
      <4> QED
        BY <4>1 DEF IInv, Queued
    <3> QED
      BY <3>1, <3>2
  <2> QED
    BY <2>1, <2>2 DEF Queued
<1> QED
  BY <1>9, <1>10, <1>11 DEF IInv

\* GoodRefresh as a state formula, to be used after a step.
RefreshKeepsGood ==
    \A s : Good(s) /\ good \in Seq(Nat) /\ now \in Nat => Good(refresh(s, now))

LEMMA GoodRefreshed == RefreshKeepsGood
BY GoodRefresh DEF RefreshKeepsGood

\* What place_dispatched makes of r before it refreshes it.
Dispatched(r, f, t) ==
    [r EXCEPT !.dirty = TRUE,
              !.probe = IF r.recovery_required /\ @ = NoProbe
                        THEN [slot |-> f, generation |-> r.lane[f].generation,
                              after |-> r.lane[f].business.attempt, at |-> t]
                        ELSE @,
              !.lane[f].busy = TRUE, !.lane[f].dispatched = t]

\* Its fields.
DispatchedOn(x, r, f, t) ==
    /\ x \in Admission /\ x.dirty = TRUE /\ x.adverse = r.adverse /\ x.ended = r.ended
    /\ x.successes = r.successes /\ x.recovery_required = r.recovery_required
    /\ \A j \in Lanes : j # f => x.lane[j] = r.lane[j]
    /\ x.pause_until = r.pause_until
    /\ x.lane[f] = [r.lane[f] EXCEPT !.busy = TRUE, !.dispatched = t]
    /\ x.lane[f].busy = TRUE /\ x.lane[f].dispatched = t
    /\ x.lane[f].verified = r.lane[f].verified
    /\ x.lane[f].generation = r.lane[f].generation
    /\ \/ x.probe = r.probe
       \/ /\ r.probe = NoProbe /\ x.probe # NoProbe
          /\ x.probe.slot = f /\ x.probe.at = t
          /\ x.probe.after = r.lane[f].business.attempt

LEMMA DispatchedIs ==
    ASSUME NEW r \in Admission, NEW f \in Fast, NEW t \in Nat
    PROVE  DispatchedOn(Dispatched(r, f, t), r, f, t)
<1> DEFINE l == [r.lane[f] EXCEPT !.busy = TRUE, !.dispatched = t]
           n == [slot |-> f, generation |-> r.lane[f].generation,
                 after |-> r.lane[f].business.attempt, at |-> t]
           p == IF r.recovery_required /\ r.probe = NoProbe THEN n ELSE r.probe
           x == Dispatched(r, f, t)
<1>1. f \in Lanes /\ r.lane \in [Lanes -> LaneState] /\ r.lane[f] \in LaneState
  BY DEF Lanes, Admission
<1>2. /\ l \in LaneState /\ l.busy = TRUE /\ l.dispatched = t
      /\ l.verified = r.lane[f].verified /\ l.generation = r.lane[f].generation
  <2>1. t \in TimeOrNone
    BY DEF TimeOrNone
  <2> QED
    BY <1>1, <2>1 DEF LaneState
<1>3. r.lane[f].generation \in Nat /\ r.lane[f].business.attempt \in Nat
  BY <1>1 DEF LaneState, Business
<1>4. n \in Probe /\ n.slot = f /\ n.after = r.lane[f].business.attempt /\ n.at = t
  BY <1>3, SMTT(40) DEF Probe
<1>5. n # NoProbe
  BY <1>4, ProbeIsNotNoProbe
<1> HIDE DEF n
<1>6. /\ p \in Probe \cup {NoProbe}
      /\ \/ p = r.probe
         \/ r.probe = NoProbe /\ p = n
  BY <1>4 DEF Admission
<1>7. x = [r EXCEPT !.dirty = TRUE, !.probe = p, !.lane = [r.lane EXCEPT ![f] = l]]
  <2> DEFINE a == [r EXCEPT !.dirty = TRUE, !.probe = p]
             b == [a EXCEPT !.lane[f].busy = TRUE]
             m == [r.lane[f] EXCEPT !.busy = TRUE]
  <2>1. x = [b EXCEPT !.lane[f].dispatched = t]
    BY DEF Dispatched, n
  <2>2. a \in Admission /\ a.lane = r.lane
    BY <1>6 DEF Admission
  <2> HIDE DEF a, p
  <2>3. m \in LaneState
    BY <1>1 DEF LaneState
  <2>4. b = [a EXCEPT !.lane = [r.lane EXCEPT ![f] = m]]
    BY <1>1, <2>2 DEF Admission
  <2>5. b \in Admission /\ b.lane = [r.lane EXCEPT ![f] = m] /\ b.lane[f] = m
    BY <1>1, <2>2, <2>3, <2>4 DEF Admission
  <2> HIDE DEF b
  <2>6. x = [b EXCEPT !.lane = [b.lane EXCEPT ![f] = [m EXCEPT !.dispatched = t]]]
    BY <1>1, <2>1, <2>5 DEF Admission
  <2>7. [m EXCEPT !.dispatched = t] = l
    BY <1>1 DEF LaneState
  <2>8. [b.lane EXCEPT ![f] = l] = [r.lane EXCEPT ![f] = l]
    BY <1>1, <2>5
  <2> QED
    BY <2>2, <2>4, <2>6, <2>7, <2>8 DEF a, Admission
<1> HIDE DEF p, l, x
<1>8. [r.lane EXCEPT ![f] = l] \in [Lanes -> LaneState]
  BY <1>1, <1>2
<1>9. /\ x \in Admission /\ x.dirty = TRUE /\ x.adverse = r.adverse /\ x.ended = r.ended
      /\ x.successes = r.successes /\ x.recovery_required = r.recovery_required
      /\ x.lane = [r.lane EXCEPT ![f] = l] /\ x.probe = p /\ x.pause_until = r.pause_until
  BY <1>6, <1>7, <1>8 DEF Admission
<1>10. x.lane[f] = l /\ \A j \in Lanes : j # f => x.lane[j] = r.lane[j]
  BY <1>1, <1>9
<1>11. DispatchedOn(x, r, f, t)
  BY <1>2, <1>4, <1>5, <1>6, <1>9, <1>10 DEF DispatchedOn, l
<1> QED
  BY <1>11 DEF x

\* A place goes to an idle lane: the lane is busy with it and, in recovery, it is
\* the probe.
LEMMA EnqueueIInv == ASSUME IInv, NEW f \in Fast, Enqueue(f) PROVE IInv'
<1> PICK r : r = refresh(h, now)
  OBVIOUS
<1> PICK t : t = now
  OBVIOUS
<1> DEFINE p == owner[f]
           o == [p EXCEPT !.occupied = TRUE, !.job = "place",
                          !.jobGen = h.lane[f].generation, !.tag = h.adverse]
           x == Dispatched(r, f, t)
<1>t. /\ TypeOK /\ t \in Nat /\ good \in Seq(Nat) /\ owner \in [Lanes -> Owner]
      /\ h \in Admission
  BY DEF IInv, TypeOK
<1>l. f \in Lanes /\ p \in Owner /\ h.lane[f].generation \in Nat /\ h.adverse \in Nat
  <2>1. f \in Lanes
    BY DEF Lanes
  <2>2. h.lane[f] \in LaneState
    BY <1>t, <2>1, LaneStates
  <2> QED
    BY <1>t, <2>1, <2>2 DEF LaneState, Admission
<1>u. /\ now' = t /\ good' = good /\ proven' = proven /\ raced' = (raced \/ cell[f].at = t)
      /\ sent' = sent + 1 /\ rpc' = "idle" /\ cell' = cell /\ resets' = resets
      /\ Fault(Count(cell[f].at = t)) /\ h' = refresh(x, t) /\ ~r.lane[f].busy
  BY DEF Enqueue, Accepts, lane_place_allowed, place_dispatched, Dispatched
<1>o. owner' = [owner EXCEPT ![f] = o]
  BY <1>l, <1>t DEF Enqueue, Owner
<1>1. Good(r)
  BY <1>t, GoodNow, GoodRefresh
<1>2. r \in Admission /\ Known(r) /\ Unraced(r)
  BY <1>1 DEF Good
<1>3. r.adverse = h.adverse
  <2>1. Recompute(h, now).adverse = h.adverse
    BY <1>t, RecomputeFields
  <2> QED
    BY <2>1 DEF refresh
<1>4. DispatchedOn(x, r, f, t)
  BY <1>t, <1>2, DispatchedIs
<1> HIDE DEF x
<1>5. /\ o \in Owner /\ o.business = p.business /\ o.occupied = TRUE /\ o.job = "place"
      /\ o.tag = h.adverse
  BY <1>l DEF Owner
<1> HIDE DEF o
<1>6. owner'[f] = o /\ \A j \in Lanes : j # f => owner'[j] = owner[j]
  BY <1>l, <1>t, <1>o
<1>7. \A j \in Lanes : owner'[j].business = owner[j].business
  BY <1>5, <1>6
<1> PICK y : y = x
  OBVIOUS
<1>x. DispatchedOn(y, r, f, t) /\ h' = refresh(y, t)
  BY <1>u, <1>4
<1>8. Known(y)'
  <2>1. \A j \in Lanes : /\ y.lane[j].verified = r.lane[j].verified
                         /\ y.lane[j].generation = r.lane[j].generation
    BY <1>x DEF DispatchedOn
  <2> QED
    BY <1>u, <1>2, <1>7, <2>1 DEF Known
<1>9. Cached(y)'
  BY <1>x DEF DispatchedOn, Cached
<1>10. ASSUME ~raced' PROVE (\A g \in Fast : Tracked(y, g))' /\ Probing(y)' /\ Counted(y)'
  <2>1. (\A g \in Fast : Tracked(r, g)) /\ Probing(r) /\ Counted(r) /\ cell[f].at # t
    BY <1>u, <1>2, <1>10 DEF Unraced
  <2>2. ASSUME NEW g \in Fast PROVE Tracked(y, g)'
    <3>1. CASE g # f
      <4>1. g \in Lanes /\ y.lane[g] = r.lane[g] /\ owner'[g] = owner[g]
        BY <1>x, <1>6, <3>1 DEF DispatchedOn, Lanes
      <4> QED
        BY <1>u, <2>1, <4>1 DEF Tracked
    <3>2. CASE g = f
      <4>1. y.lane[f].busy = TRUE /\ y.lane[f].dispatched = t
        BY <1>x DEF DispatchedOn
      <4>2. ASSUME cell[f] # NoObservation PROVE ~AfterDispatch(y.lane[f], cell[f])
        <5>1. cell[f].at \in Nat /\ cell[f].at <= t
          BY <1>l, <4>2 DEF IInv, TypeOK, Observations, Queued
        <5>2. t # NoTime /\ ~(cell[f].at >= t)
          BY <1>t, <2>1, <5>1, SMTT(40) DEF NoTime
        <5> QED
          BY <4>1, <5>2 DEF AfterDispatch
      <4> QED
        BY <1>u, <3>2, <4>1, <4>2 DEF Tracked
    <3> QED
      BY <3>1, <3>2
  <2>3. r.lane[f].business.attempt = owner'[f].business.attempt
    BY <1>u, <1>l, <1>7, <2>1 DEF Tracked
  <2>4. r.probe # NoProbe => r.probe.slot \in Lanes /\ r.probe.slot # f
    <3>1. r.probe # NoProbe => r.probe.slot \in Lanes
      BY <1>2 DEF Admission, Probe, Lanes
    <3> QED
      BY <1>u, <2>1, <3>1 DEF Probing
  <2>5. /\ y.adverse = r.adverse /\ y.ended = r.ended /\ y.successes = r.successes
        /\ y.recovery_required = r.recovery_required
    BY <1>x DEF DispatchedOn
  <2>6. CASE y.probe = r.probe
    <3>1. y.probe # NoProbe => /\ y.lane[y.probe.slot] = r.lane[y.probe.slot]
                               /\ owner'[y.probe.slot] = owner[y.probe.slot]
      <4>1. \A j \in Lanes : j # f => y.lane[j] = r.lane[j]
        BY <1>x DEF DispatchedOn
      <4> QED
        BY <1>6, <2>4, <2>6, <4>1
    <3>2. Probing(y)'
      <4>1. ASSUME y.probe # NoProbe
            PROVE  /\ y.lane[y.probe.slot].busy
                   /\ y.lane[y.probe.slot].dispatched = y.probe.at
                   /\ owner'[y.probe.slot].job = "place" =>
                          /\ owner'[y.probe.slot].tag = y.adverse
                          /\ owner'[y.probe.slot].business.attempt = y.probe.after
        <5>1. /\ r.lane[y.probe.slot].busy /\ r.lane[y.probe.slot].dispatched = y.probe.at
              /\ owner[y.probe.slot].job = "place" =>
                     /\ owner[y.probe.slot].tag = r.adverse
                     /\ owner[y.probe.slot].business.attempt = y.probe.after
          BY <2>1, <2>6, <4>1 DEF Probing
        <5> QED
          BY <2>5, <3>1, <4>1, <5>1
      <4> QED
        BY <4>1 DEF Probing
    <3>3. Answered(y)' = Answered(r)
      BY <2>6, <3>1 DEF Answered
    <3>4. Counted(y)'
      BY <1>u, <2>1, <2>5, <3>3 DEF Counted, Earned
    <3> QED
      BY <2>2, <3>2, <3>4
  <2>7. CASE y.probe # r.probe
    <3>1. /\ r.probe = NoProbe /\ y.probe # NoProbe /\ y.probe.slot = f /\ y.probe.at = t
          /\ y.probe.after = r.lane[f].business.attempt
          /\ y.lane[f].busy = TRUE /\ y.lane[f].dispatched = t
      BY <1>x, <2>7 DEF DispatchedOn
    <3>2. Probing(y)'
      BY <1>3, <1>5, <1>6, <2>3, <2>5, <3>1 DEF Probing
    <3>3. ~Answered(y)' /\ ~Answered(r)
      <4>1. owner'[f].business.attempt \in Nat
        BY <1>l, <1>7 DEF Owner, Business
      <4>2. ~(owner'[f].business.attempt > y.probe.after)
        BY <2>3, <3>1, <4>1, SMTT(40)
      <4> QED
        BY <3>1, <4>2 DEF Answered
    <3>4. Count(Answered(y)') = Count(Answered(r))
      BY <3>3 DEF Count
    <3>5. Counted(y)'
      BY <1>u, <2>1, <2>5, <3>4 DEF Counted, Earned, Count
    <3> QED
      BY <2>2, <3>2, <3>5
  <2> QED
    BY <2>6, <2>7
<1>11. Good(y)'
  <2>1. y \in Admission
    BY <1>x DEF DispatchedOn
  <2> QED
    BY <1>8, <1>9, <1>10, <2>1 DEF Good, Unraced
<1>12. Good(h)'
  <2>1. RefreshKeepsGood'
    BY GoodRefreshed, PTL
  <2>2. Good(refresh(y, now))'
    BY <1>t, <1>u, <1>11, <2>1 DEF RefreshKeepsGood
  <2>3. h' = refresh(y, now')
    BY <1>u, <1>x
  <2> QED
    BY <2>2, <2>3
<1>13. TypeOK'
  <2>1. owner' \in [Lanes -> Owner]
    BY <1>t, <1>o, <1>5
  <2>2. faults' \in Nat
    BY <1>t, <1>u, CountIs, Faults
  <2>3. h' \in Admission
    BY <1>12 DEF Good
  <2>4. sent' \in Nat
    BY <1>t, <1>u, Numbers DEF TypeOK
  <2> QED
    BY <1>t, <1>u, <2>1, <2>2, <2>3, <2>4 DEF TypeOK
<1>14. Queued'
  BY <1>u, <1>5, <1>6 DEF IInv, Queued
<1> QED
  BY <1>12, <1>13, <1>14 DEF IInv, Good

-----------------------------------------------------------------------------
(* The router is safe *)

LEMMA InitIInv == ASSUME Init PROVE IInv
<1>u. /\ now = 0 /\ h = with_config /\ rpc = "idle" /\ resets = [i \in Lanes |-> NoGen]
      /\ cell = [i \in Lanes |-> NoObservation] /\ sent = 0 /\ faults = 0
      /\ raced = FALSE /\ good = <<>> /\ proven = {}
  BY DEF Init
<1>b. NoBusiness \in Business /\ NoBusiness.outcome = "None" /\ NoBusiness.attempt = 0
  BY SMTT(40) DEF NoBusiness, Business, AllOutcomes
<1>1. LaneStateDefault \in LaneState
  <2>1. NoTime \in TimeOrNone /\ NoGen \in GenOrNone
    BY DEF TimeOrNone, GenOrNone
  <2> QED
    BY <1>b, <2>1, Numbers DEF LaneStateDefault, LaneState
<1>2. /\ LaneStateDefault.verified = FALSE /\ LaneStateDefault.busy = FALSE
      /\ LaneStateDefault.dispatched = NoTime /\ LaneStateDefault.business = NoBusiness
  BY DEF LaneStateDefault
<1>3. [i \in Lanes |-> LaneStateDefault] \in [Lanes -> LaneState]
  BY <1>1
<1>4. with_config \in Admission
  BY <1>3, Numbers DEF with_config, Admission, Verdicts
<1>5. /\ h.lane = [i \in Lanes |-> LaneStateDefault] /\ h.dirty = TRUE
      /\ h.recovery_required = TRUE /\ h.successes = 0 /\ h.probe = NoProbe
  BY <1>u DEF with_config
<1>6. \A i \in Lanes : h.lane[i] = LaneStateDefault /\ cell[i] = NoObservation
  BY <1>u, <1>5
<1>7. \A i \in Lanes : /\ owner[i].job = "None" /\ owner[i].pc # "run"
                       /\ owner[i].business = NoBusiness /\ owner[i] \in Owner
  <2> SUFFICES ASSUME NEW i \in Lanes
               PROVE  /\ owner[i].job = "None" /\ owner[i].pc # "run"
                      /\ owner[i].business = NoBusiness /\ owner[i] \in Owner
    OBVIOUS
  <2>1. Top(i) \in {"top", "wait", "run"} /\ Top(i) # "run"
    BY DEF Top
  <2>2. owner[i] = [alive |-> TRUE, pc |-> Top(i), occupied |-> FALSE, job |-> "None",
                    jobGen |-> 0, tag |-> 0, generation |-> 0, quarantined |-> FALSE,
                    business |-> NoBusiness]
    BY DEF Init
  <2>3. owner[i].job = "None" /\ owner[i].pc # "run" /\ owner[i].business = NoBusiness
    BY <2>1, <2>2, SMTT(40)
  <2>4. owner[i] \in Owner
    BY <1>b, <2>1, <2>2, SMTT(40) DEF Owner
  <2> QED
    BY <2>3, <2>4
<1>8. TypeOK
  <2>1. owner \in [Lanes -> Owner]
    <3>1. owner = [i \in Lanes |-> owner[i]]
      BY DEF Init
    <3> QED
      BY <1>7, <3>1
  <2>2. /\ resets \in [Lanes -> GenOrNone]
        /\ cell \in [Lanes -> Observations \cup {NoObservation}]
    BY <1>u DEF GenOrNone
  <2>3. good \in Seq(Nat)
    BY <1>u, SMTT(40)
  <2> QED
    BY <1>u, <1>4, <2>1, <2>2, <2>3, Numbers DEF TypeOK
<1>9. Queued
  BY <1>6, <1>7 DEF Queued
<1>10. Known(h)
  BY <1>b, <1>2, <1>6, <1>7 DEF Known
<1>11. Cached(h)
  BY <1>5, DirtyIsCached
<1>12. \A f \in Fast : Tracked(h, f)
  <2> SUFFICES ASSUME NEW f \in Fast PROVE Tracked(h, f)
    OBVIOUS
  <2>1. f \in Lanes
    BY DEF Lanes
  <2> QED
    BY <1>2, <1>6, <1>7, <2>1 DEF Tracked
<1>13. Probing(h)
  BY <1>5 DEF Probing
<1>14. Counted(h)
  BY <1>5, <1>8, NothingCounted DEF Counted, TypeOK
<1> QED
  BY <1>8, <1>9, <1>10, <1>11, <1>12, <1>13, <1>14 DEF IInv, Unraced

LEMMA NextIInv == ASSUME IInv, [Next]_vars PROVE IInv'
<1>1. CASE UNCHANGED vars
  BY <1>1, StutterIInv
<1>2. CASE Tick
  BY <1>2, TickIInv
<1>3. CASE SkipRefresh
  BY <1>3, SkipRefreshIInv
<1>4. CASE Refuse
  BY <1>4, RefuseIInv
<1>5. CASE \E reset \in BOOLEAN, next \in {"idle", "selecting"} : RefreshHealth(reset, next)
  BY <1>5, RefreshHealthIInv
<1>6. CASE \E f \in Fast : OwnerPublishInFlight(f)
  BY <1>6, OwnerPublishInFlightIInv DEF Lanes
<1>7. CASE \E f \in Fast, k \in Outcomes : OwnerCompletes(f, k)
  BY <1>7, OwnerCompletesIInv
<1>8. CASE \E c \in Cancel, closed \in BOOLEAN : CancelPublish(c, closed)
  BY <1>8, CancelPublishIInv DEF Lanes
<1>9. CASE \E c \in Cancel, k \in Outcomes : CancelCompletes(c, k)
  BY <1>9, CancelCompletesIInv
<1>10. CASE \E i \in Lanes : Repair(i)
  BY <1>10, RepairIInv
<1>11. CASE \E i \in Lanes : OwnerDies(i)
  BY <1>11, OwnerDiesIInv
<1>12. CASE \E i \in Lanes, stale \in BOOLEAN : OwnerTakes(i, stale)
  BY <1>12, OwnerTakesIInv
<1>13. CASE \E f \in Fast : Enqueue(f)
  BY <1>13, EnqueueIInv
<1>14. CASE \E f \in Fast, closed, early \in BOOLEAN : OwnerHeartbeat(f, closed, early)
  BY <1>14, OwnerHeartbeatIInv DEF Lanes
<1> QED
  BY <1>1, <1>2, <1>3, <1>4, <1>5, <1>6, <1>7, <1>8, <1>9, <1>10, <1>11, <1>12, <1>13,
     <1>14 DEF Next

\* The invariant of the router and its owners, of any registry of lanes.
THEOREM RouterInvariant == Spec => []IInv
BY InitIInv, NextIInv, PTL DEF Spec

\* A clean cache agrees with the full computation: PolyAccountConnectionRoutes may
\* rely on refresh's early return at any instant.
LEMMA CacheIsCoherent == IInv => CacheCoherent
<1> SUFFICES ASSUME IInv PROVE CacheCoherent
  OBVIOUS
<1>1. ~h.dirty /\ now < h.next_change => SameVerdict(h, Recompute(h, now))
  BY DEF IInv, Cached
<1>2. SameVerdict(refresh(h, now), Recompute(h, now))
  BY <1>1 DEF refresh, SameVerdict
<1> QED
  BY <1>2 DEF CacheCoherent, SameVerdict

\* "Never allow a cached result to cross a lease/recovery boundary": the verdict
\* that refresh returns, from its cache or not, is the one its full computation gives.
THEOREM RouterCacheCoherent == Spec => []CacheCoherent
BY RouterInvariant, CacheIsCoherent, PTL

LEMMA InvVerified == IInv => VerifiedProven
BY DEF IInv, Known, VerifiedProven

\* A lane is verified only on a generation that answered a request healthily, though
\* observations are coalesced and a repaired connection starts over.
THEOREM VerifiedIsProven == Spec => []VerifiedProven
BY RouterInvariant, InvVerified, PTL

LEMMA InvBusy == IInv => BusyKnown
BY DEF IInv, Unraced, Tracked, BusyKnown

\* "An already queued idle heartbeat cannot clear a root-side dispatch": the router
\* holds every lane whose owner has a place to be busy, unless a heartbeat and a
\* place crossed.
THEOREM BusyIsKnown == Spec => []BusyKnown
BY RouterInvariant, InvBusy, PTL

LEMMA InvEarned == IInv => RecoveryEarned
BY DEF IInv, Unraced, Counted, Earned, RecoveryEarned

\* try_send_poly_owner's account leaves recovery only after recovery_successes places
\* dispatched since the last adverse event were answered healthily, unless a
\* heartbeat and a place crossed.
THEOREM RecoveryIsEarned == Spec => []RecoveryEarned
BY RouterInvariant, InvEarned, PTL

\* "Recovery promises at most one request in flight account-wide" as long as no
\* heartbeat and no place have crossed.
OneProbeUncrossed ==
    [][~raced => \A f \in Fast : Enqueue(f) /\ h'.recovery_required
                   => \A g \in Fast \ {f} : owner[g].job # "place"]_vars

\* A dispatch does not start a recovery.
LEMMA DispatchNotRecovering ==
    ASSUME NEW r \in Admission, NEW f \in Fast, NEW t \in Nat, ~Recovering(r, t)
    PROVE  ~place_dispatched(r, f, t).recovery_required
<1> DEFINE x == Dispatched(r, f, t)
<1>1. DispatchedOn(x, r, f, t)
  BY DispatchedIs
<1>2. place_dispatched(r, f, t) = refresh(x, t)
  BY DEF place_dispatched, Dispatched
<1> HIDE DEF x
<1>3. /\ x \in Admission /\ x.dirty = TRUE /\ x.pause_until = r.pause_until
      /\ x.recovery_required = r.recovery_required
      /\ \A j \in Lanes : j # f => x.lane[j] = r.lane[j]
      /\ x.lane[f] = [r.lane[f] EXCEPT !.busy = TRUE, !.dispatched = t]
  BY <1>1 DEF DispatchedOn
<1>4. refresh(x, t).recovery_required = Recovering(x, t)
  <2>1. Recompute(x, t).recovery_required = Recovering(x, t)
    BY <1>3, RecomputeFields
  <2> QED
    BY <1>3, <2>1 DEF refresh
<1>5. /\ x.lane[f].seen = r.lane[f].seen /\ x.lane[f].fault = r.lane[f].fault
      /\ x.lane[f].at = r.lane[f].at /\ x.lane[f].quarantined = r.lane[f].quarantined
      /\ x.lane[f].retired = r.lane[f].retired /\ x.lane[f].generation = r.lane[f].generation
      /\ x.lane[f].failed = r.lane[f].failed /\ x.lane[f].eligible = r.lane[f].eligible
  <2>1. f \in Lanes
    BY DEF Lanes
  <2>2. r.lane[f] \in LaneState
    BY <2>1, LaneStates
  <2> QED
    BY <1>3, <2>2 DEF LaneState
<1>6. \A j \in Lanes : /\ fresh(x.lane[j], t) = fresh(r.lane[j], t)
                       /\ ready(x.lane[j]) = ready(r.lane[j])
                       /\ cancel_ready(x.lane[j]) = cancel_ready(r.lane[j])
                       /\ cancel_probe_eligible(x.lane[j], t) = cancel_probe_eligible(r.lane[j], t)
  <2> SUFFICES ASSUME NEW j \in Lanes
               PROVE  /\ fresh(x.lane[j], t) = fresh(r.lane[j], t)
                      /\ ready(x.lane[j]) = ready(r.lane[j])
                      /\ cancel_ready(x.lane[j]) = cancel_ready(r.lane[j])
                      /\ cancel_probe_eligible(x.lane[j], t)
                           = cancel_probe_eligible(r.lane[j], t)
    OBVIOUS
  <2>1. CASE j = f
    BY <1>5, <2>1 DEF fresh, ready, cancel_ready, cancel_probe_eligible
  <2>2. CASE j # f
    BY <1>3, <2>2
  <2> QED
    BY <2>1, <2>2
<1>7. /\ ReadyFast(x, t) = ReadyFast(r, t) /\ EligibleCancel(x, t) = EligibleCancel(r, t)
      /\ ReadyCancel(x, t) = ReadyCancel(r, t)
  BY <1>6 DEF ReadyFast, EligibleCancel, ReadyCancel, Fresh, Lanes, Ordinary
<1>8. ~Recovering(x, t)
  BY <1>3, <1>7 DEF Recovering, Paused
<1> QED
  BY <1>2, <1>4, <1>8

\* In recovery a place is allowed only when no Fast lane is busy.
LEMMA OneProbeStep ==
    ASSUME IInv, ~raced, NEW f \in Fast, Enqueue(f), h'.recovery_required,
           NEW g \in Fast
    PROVE  owner[g].job # "place"
<1> DEFINE r == refresh(h, now)
<1>1. h \in Admission /\ now \in Nat /\ Tracked(h, g)
  BY DEF IInv, TypeOK, Unraced
<1>2. r.state # "Paused" /\ r.slots > 0 /\ h' = place_dispatched(r, f, now)
  BY DEF Enqueue, Accepts, lane_place_allowed, allows_place
<1>3. r \in Admission /\ r.lane = h.lane /\ r.pause_until = h.pause_until
  <2>1. Recompute(h, now).lane = h.lane /\ Recompute(h, now).pause_until = h.pause_until
    BY <1>1, RecomputeFields
  <2>2. refresh(h, now) \in Admission
    BY <1>1, RefreshIsNoBetter
  <2> QED
    BY <2>1, <2>2 DEF refresh
<1>4. /\ r.state = State(h, now) /\ r.slots = Slots(h, now)
      /\ r.recovery_required = Recovering(h, now)
  <2>1. SameVerdict(refresh(h, now), Recompute(h, now))
    BY CacheIsCoherent DEF CacheCoherent, SameVerdict
  <2>2. /\ Recompute(h, now).state = State(h, now) /\ Recompute(h, now).slots = Slots(h, now)
        /\ Recompute(h, now).recovery_required = Recovering(h, now)
    BY <1>1, RecomputeFields
  <2> QED
    BY <2>1, <2>2 DEF SameVerdict
<1> HIDE DEF r
<1>5. Recovering(h, now)
  <2> SUFFICES ASSUME ~Recovering(h, now) PROVE FALSE
    OBVIOUS
  <2>1. ~Recovering(r, now)
    BY <1>3, <1>4 DEF Recovering, Paused, ReadyFast, EligibleCancel, ReadyCancel, Fresh
  <2> QED
    BY <1>1, <1>2, <1>3, <2>1, DispatchNotRecovering
<1>6. ~Paused(h, now)
  <2>1. Paused(h, now) => State(h, now) = "Paused"
    BY SMTT(40) DEF State, Recovering
  <2> QED
    BY <1>2, <1>4, <2>1
<1>7. NoneBusy(h)
  <2> SUFFICES ASSUME ~NoneBusy(h) PROVE FALSE
    OBVIOUS
  <2>1. Slots(h, now) = One(Free(h, now) # {} /\ NextProbe(h, now) = NoProbe /\ NoneBusy(h))
    BY <1>5, <1>6, SMTT(40) DEF Slots
  <2>2. Slots(h, now) = 0
    BY <2>1 DEF One
  <2> QED
    BY <1>2, <1>4, <2>2, SMTT(40)
<1> QED
  BY <1>1, <1>7 DEF NoneBusy, Tracked

\* "Recovery promises at most one request in flight account-wide": while no heartbeat
\* and no place have crossed, try_send_poly_owner enqueues none while a Fast owner
\* has one.
THEOREM OneProbeUnlessCrossed == Spec => OneProbeUncrossed
<1>1. IInv => [~raced => \A f \in Fast : Enqueue(f) /\ h'.recovery_required
                           => \A g \in Fast \ {f} : owner[g].job # "place"]_vars
  BY OneProbeStep
<1> QED
  BY <1>1, RouterInvariant, PTL DEF OneProbeUncrossed

=============================================================================
