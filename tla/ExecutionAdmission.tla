-------------------------- MODULE ExecutionAdmission --------------------------
(***************************************************************************)
(* AccountExecutionAdmission (hexagent-engine/src/execution_admission.rs), *)
(* the execution router's verdict on whether orders may be placed, as      *)
(* functions of its state h.  A lane of the router is a Fast or a Cancel   *)
(* slot; an observation o is what the lane's owner last published.         *)
(*                                                                         *)
(* The owner is a lane's only publisher, so an observation is always newer *)
(* than the last one consumed: of `sequence` only "is not 0" is kept, and  *)
(* the totals never decrease.  A Healthy outcome is a fast one.  The clock *)
(* is never set back, so a verdict is never from the future.  Peer         *)
(* addresses, the diagnostic counters and u16 saturation are left out.     *)
(***************************************************************************)
EXTENDS Integers, FiniteSets

CONSTANTS
    Fast, Cancel,         \* the registry of lanes
    Reserved,             \* cancel lanes for emergencies (reserve_cancel_slot)
    stale_after, failure_cluster_window,
    recovery_pause, max_recovery_pause,
    recovery_successes    \* AdmissionConfig, durations in clock units

Lanes == Fast \cup Cancel

ASSUME AdmissionAssumption ==
    /\ Fast \cap Cancel = {} /\ Reserved \subseteq Cancel
    /\ {stale_after, failure_cluster_window, recovery_pause, max_recovery_pause,
        recovery_successes} \subseteq Nat

NoTime == -1
NoGen == -1
Never == 1000000          \* u64::MAX
NoProbe == [slot |-> "None"]

min(a, b) == IF a <= b THEN a ELSE b
max(a, b) == IF a >= b THEN a ELSE b

\* What an owner knows of its own requests: the last outcome and the totals.
NoBusiness ==
    [attempt |-> 0, outGen |-> 0, outcome |-> "None", failures |-> 0, slow |-> 0,
     noResponse |-> 0, noResponseGen |-> 0, slowRetired |-> 0, slowRetiredGen |-> 0]

LaneStateDefault ==
    [seen |-> FALSE, at |-> 0, generation |-> 0, quarantined |-> FALSE, busy |-> FALSE,
     dispatched |-> NoTime, business |-> NoBusiness, retired |-> NoGen, verified |-> FALSE,
     fault |-> FALSE, window |-> 0, failed |-> FALSE, eligible |-> 0, streak |-> 0]

with_config ==
    [lane |-> [i \in Lanes |-> LaneStateDefault],
     dirty |-> TRUE, next_change |-> 0, probation_busy |-> FALSE,
     recovery_required |-> TRUE, successes |-> 0, probe |-> NoProbe,
     pause_until |-> 0, streak |-> 0,
     window |-> 0, window_started |-> 0, window_lanes |-> 0, reset_pending |-> FALSE,
     state |-> "Paused", slots |-> 0,
     adverse |-> 0,       \* history: adverse observations and pauses so far
     ended |-> 0]         \* history: their number when recovery last ended

-----------------------------------------------------------------------------
(* LaneState *)

fresh(l, now) == l.seen /\ ~l.fault /\ l.at <= now /\ now - l.at <= stale_after
ready(l) == ~l.quarantined /\ l.retired # l.generation
cancel_ready(l) == ready(l) /\ ~l.failed
cancel_probe_eligible(l, now) == ready(l) /\ (~l.failed \/ now >= l.eligible)

Backoff(streak) == min(recovery_pause * 2^min(streak, 3), max_recovery_pause)

-----------------------------------------------------------------------------
(* Pauses *)

pause_for_recovery(h, now) ==
    [h EXCEPT !.dirty = TRUE, !.streak = @ + 1, !.pause_until = now + Backoff(h.streak),
              !.recovery_required = TRUE, !.successes = 0, !.probe = NoProbe,
              !.adverse = @ + 1]

retire_transport_generations(h, now) ==
    pause_for_recovery(
      [h EXCEPT !.reset_pending = TRUE,
                !.lane = [i \in Lanes |-> [h.lane[i] EXCEPT !.retired = h.lane[i].generation,
                                                           !.verified = FALSE]]],
      now)

\* Two lanes that fail within one window pause the account, once per window.
note_failure(h, i, now) ==
    LET opened == IF h.window = 0 \/ now - h.window_started > failure_cluster_window
                  THEN [h EXCEPT !.window = @ + 1, !.window_started = now, !.window_lanes = 0]
                  ELSE h
        noted == IF opened.lane[i].window # opened.window
                 THEN [opened EXCEPT !.lane[i].window = opened.window, !.window_lanes = @ + 1]
                 ELSE opened
    IN IF noted.window_lanes = 2
       THEN pause_for_recovery([noted EXCEPT !.window_lanes = 3], now)
       ELSE noted

-----------------------------------------------------------------------------
(* The verdict *)

Fresh(h, S, now) == {i \in S : fresh(h.lane[i], now)}
ReadyFast(h, now) == {i \in Fresh(h, Fast, now) : ready(h.lane[i])}
Ordinary == Cancel \ Reserved
ReadyCancel(h, now) == {i \in Fresh(h, Ordinary, now) : cancel_ready(h.lane[i])}
EligibleCancel(h, now) == {i \in Fresh(h, Ordinary, now) : cancel_probe_eligible(h.lane[i], now)}

\* The instants at which a verdict computed at now may change by itself.
\* A failed lane's back-off is not among them.
Deadlines_NoBackoff(h, now) ==
    {t \in {h.pause_until} \cup {h.lane[i].at : i \in Lanes}
           \cup {h.lane[i].at + stale_after + 1 : i \in Lanes} : t > now}

Deadlines(h, now) ==
    {t \in {h.pause_until} \cup {h.lane[i].at : i \in Lanes}
           \cup {h.lane[i].at + stale_after + 1 : i \in Lanes}
           \cup {h.lane[i].eligible : i \in Lanes} : t > now}

Earliest(T) == IF T = {} THEN Never ELSE CHOOSE t \in T : \A u \in T : t <= u

\* The computation behind refresh: state, slots and what they reset.
Recompute(h, now) ==
    LET readyFast == ReadyFast(h, now)
        free == {i \in readyFast : ~h.lane[i].busy}
        verifiedFree == {i \in free : h.lane[i].verified}
        probationBusy == \E i \in readyFast : ~h.lane[i].verified /\ h.lane[i].busy
        paused == readyFast = {} \/ EligibleCancel(h, now) = {} \/ now < h.pause_until
        recovering == paused \/ h.recovery_required \/ ReadyCancel(h, now) = {}
        probe == IF paused THEN NoProbe ELSE h.probe
        healthy == /\ Fresh(h, Lanes, now) = Lanes /\ readyFast = Fast
                   /\ ReadyCancel(h, now) = Ordinary
                   /\ \A i \in Fast : h.lane[i].verified
        one(b) == IF b THEN 1 ELSE 0
    IN [h EXCEPT
          !.dirty = FALSE, !.next_change = Earliest(Deadlines(h, now)),
          !.probation_busy = probationBusy,
          !.recovery_required = recovering,
          !.successes = IF paused THEN 0 ELSE @,
          !.probe = probe,
          !.state = CASE paused -> "Paused" [] ~paused /\ recovering -> "Recovering"
                      [] ~recovering /\ healthy -> "Healthy" [] OTHER -> "Degraded",
          !.slots = CASE paused -> 0
                      [] ~paused /\ recovering ->
                           one(free # {} /\ probe = NoProbe /\ \A i \in Fast : ~h.lane[i].busy)
                      [] ~recovering /\ healthy -> Cardinality(free)
                      [] OTHER -> Cardinality(verifiedFree)
                                  + one(~probationBusy /\ free # verifiedFree)]

refresh(h, now) ==
    IF ~h.dirty /\ now < h.next_change THEN h ELSE Recompute(h, now)

mark_delivery_fault(h, i, now) ==
    refresh([h EXCEPT !.dirty = TRUE, !.lane[i].fault = TRUE], now)

allows_place(h) == h.state # "Paused" /\ h.slots > 0

\* On a refreshed h.
lane_place_allowed(h, i, now) ==
    /\ allows_place(h)
    /\ fresh(h.lane[i], now) /\ ready(h.lane[i]) /\ ~h.lane[i].busy
    /\ h.recovery_required \/ h.lane[i].verified \/ ~h.probation_busy

place_dispatched(h, i, now) ==
    refresh([h EXCEPT
               !.dirty = TRUE,
               !.probe = IF h.recovery_required /\ @ = NoProbe
                         THEN [slot |-> i, generation |-> h.lane[i].generation,
                               after |-> h.lane[i].business.attempt, at |-> now]
                         ELSE @,
               !.lane[i].busy = TRUE, !.lane[i].dispatched = now],
            now)

-----------------------------------------------------------------------------
(* observe *)

\* What an observation o says that the lane state p did not know.
Evidence(p, o) ==
    LET b == o.business
        new == b.attempt > p.business.attempt /\ b.outGen = o.generation
        is(kinds) == new /\ b.outcome \in kinds
        failure == b.failures > p.business.failures \/ is({"Failure", "TransportUncertain"})
        slow == b.slow > p.business.slow
    IN [failure |-> failure, slow |-> slow,
        adverse |-> failure \/ slow \/ is({"SlowResponded", "SlowRetired"}),
        healthy |-> is({"Healthy"}),
        proves |-> is({"Healthy"}) /\ ~failure /\ ~slow,
        retires |-> \/ is({"SlowRetired"})
                    \/ b.slowRetired > p.business.slowRetired /\ b.slowRetiredGen = o.generation,
        reset |-> /\ b.noResponse > p.business.noResponse
                  /\ p.retired = NoGen \/ b.noResponseGen > p.retired]

\* A lane once verified stays so on its next generation.
Verified_AcrossGenerations(p, o, e) ==
    \/ p.verified /\ ~e.adverse
    \/ e.proves /\ ~e.retires /\ ~o.quarantined /\ p.retired # o.generation

Verified(p, o, e) ==
    \/ p.verified /\ o.generation = p.generation /\ ~e.adverse
    \/ e.proves /\ ~e.retires /\ ~o.quarantined /\ p.retired # o.generation

\* Any heartbeat says whether the lane is busy, also one from before the dispatch.
AfterDispatch_Any(p, o) == TRUE

AfterDispatch(p, o) == p.dispatched = NoTime \/ o.at >= p.dispatched

LaneAfter(p, o, e, now) ==
    LET heals == e.healthy /\ ~e.slow /\ p.retired # o.generation
        after == AfterDispatch(p, o)
    IN [p EXCEPT
          !.seen = TRUE, !.at = o.at, !.generation = o.generation,
          !.quarantined = o.quarantined, !.business = o.business, !.fault = FALSE,
          !.busy = IF after THEN o.busy ELSE @,
          !.dispatched = IF after /\ ~o.busy THEN NoTime ELSE @,
          !.verified = Verified(p, o, e),
          !.failed = ~heals /\ (@ \/ e.adverse),
          !.eligible = IF heals THEN 0 ELSE IF e.adverse THEN now + Backoff(p.streak) ELSE @,
          !.streak = IF heals THEN 0 ELSE IF e.adverse THEN @ + 1 ELSE @,
          !.retired = IF e.retires THEN o.generation ELSE @]

\* Evidence against the account: resets, the failure cluster, a failed probe.
\* A probe in flight survives adverse evidence.
Penalise_KeepsProbe(h, i, o, e, now) ==
    LET reset == IF e.reset THEN retire_transport_generations(h, now) ELSE h
        noted == IF e.failure THEN note_failure(reset, i, now) ELSE reset
    IN IF e.adverse THEN [noted EXCEPT !.successes = 0, !.adverse = @ + 1] ELSE noted

Penalise(h, i, o, e, now) ==
    LET probed == h.probe # NoProbe /\ h.probe.slot = i /\ o.at >= h.probe.at
        reset == IF e.reset THEN retire_transport_generations(h, now) ELSE h
        noted == IF e.failure THEN note_failure(reset, i, now) ELSE reset
        paused == IF e.failure /\ probed /\ now >= noted.pause_until
                  THEN pause_for_recovery(noted, now) ELSE noted
    IN IF e.adverse
       THEN [paused EXCEPT !.successes = 0, !.probe = NoProbe, !.adverse = @ + 1]
       ELSE paused

\* The probe's lane is idle again: a healthy result of the probe itself counts.
SettleProbe(h, i, o, e) ==
    IF h.probe # NoProbe /\ h.probe.slot = i /\ o.at >= h.probe.at /\ ~o.busy
    THEN [h EXCEPT !.probe = NoProbe,
                   !.successes = IF /\ e.proves /\ o.generation = h.probe.generation
                                    /\ o.business.attempt > h.probe.after
                                 THEN @ + 1 ELSE @]
    ELSE h

EndRecovery(h, now) ==
    IF h.successes >= max(recovery_successes, 1) /\ ReadyCancel(h, now) # {}
    THEN [h EXCEPT !.recovery_required = FALSE, !.streak = 0, !.ended = h.adverse]
    ELSE h

observe(h, i, o, now) ==
    LET p == h.lane[i]
        e == Evidence(p, o)
        seen == [h EXCEPT !.dirty = TRUE, !.lane[i] = LaneAfter(p, o, e, now)]
        judged == SettleProbe(Penalise(seen, i, o, e, now), i, o, e)
    IN CASE o.generation < p.generation -> refresh(h, now)
         [] o.generation >= p.generation /\ (o.at > now \/ o.at < p.at) ->
              mark_delivery_fault(h, i, now)
         [] OTHER -> refresh(EndRecovery(judged, now), now)
=============================================================================
