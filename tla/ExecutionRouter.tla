--------------------------- MODULE ExecutionRouter ---------------------------
(***************************************************************************)
(* One account's execution router with its connection owners: refresh_     *)
(* health and try_send_poly_owner over ExecutionAdmission, the owners'     *)
(* loop of run_poly_connection_owner with publish_poly_owner_health (all   *)
(* in hexagent-engine/src/engine.rs), and of each pooled connection its    *)
(* generation, quarantine and recorded outcomes.  Owners publish on        *)
(* latest-value lanes.  The owner of a Fast lane reads `occupied` and the  *)
(* clock at two instants, in that order; the router may run in between,    *)
(* which OwnerHeartbeat's parameter `early` stands for.                    *)
(* Cancels are never refused, so cancel lanes only make requests.          *)
(***************************************************************************)
EXTENDS ExecutionAdmission, Sequences

CONSTANTS
    LaneOrder,            \* the lanes in the order refresh_health drains them
    Outcomes,             \* the BusinessHttpOutcomes that occur
    MaxTime, MaxSend, MaxFaults   \* bounds: clock, places, adverse events and crossings

ASSUME RouterAssumption ==
    /\ LaneOrder \in Seq(Lanes)
    /\ {LaneOrder[k] : k \in DOMAIN LaneOrder} = Lanes
    /\ Outcomes \subseteq {"Healthy", "SlowResponded", "SlowRetired", "Failure",
                           "TransportUncertain"}

VARIABLES
    now,                  \* the wall clock
    h,                    \* the router's AccountExecutionAdmission
    rpc,                  \* the router inside try_send_poly_owner
    resets,               \* the router's reset_pending generation of each lane
    cell,                 \* unread observation of each lane
    owner,                \* each lane's owner and its connection
    sent, faults,         \* bounded counters
    raced,                \* history: a heartbeat and a place crossed
    good,                 \* history: h.adverse at the dispatch of each healthy place
    proven                \* history: the lanes and generations that answered healthily

vars == <<now, h, rpc, resets, cell, owner, sent, faults, raced, good, proven>>

NoObservation == [at |-> NoTime]
Top(i) == IF i \in Fast THEN "top" ELSE "wait"

Init ==
    /\ now = 0
    /\ h = with_config
    /\ rpc = "idle"
    /\ resets = [i \in Lanes |-> NoGen]
    /\ cell = [i \in Lanes |-> NoObservation]
    /\ owner = [i \in Lanes |->
         [alive |-> TRUE, pc |-> Top(i), occupied |-> FALSE, job |-> "None",
          jobGen |-> 0, tag |-> 0, generation |-> 0, quarantined |-> FALSE,
          business |-> NoBusiness]]
    /\ sent = 0 /\ faults = 0
    /\ raced = FALSE /\ good = <<>> /\ proven = {}

Tick ==
    /\ now < MaxTime
    /\ now' = now + 1
    /\ UNCHANGED <<raced, h, rpc, resets, cell, owner, sent, faults, good, proven>>

Count(b) == IF b THEN 1 ELSE 0
Fault(n) == faults + n <= MaxFaults /\ faults' = faults + n

-----------------------------------------------------------------------------
(* Connections (http1_pool.rs) *)

\* record_business_outcome, on the generation picked for the request.
record_business_outcome(b, generation, outcome) ==
    LET fails == outcome \in {"Failure", "TransportUncertain"}
        silent == outcome = "TransportUncertain"
        slow == outcome \in {"SlowResponded", "SlowRetired"}
        retired == outcome = "SlowRetired"
        add(n, p) == IF p THEN n + 1 ELSE n
    IN [attempt |-> b.attempt + 1, outGen |-> generation, outcome |-> outcome,
        failures |-> add(b.failures, fails), slow |-> add(b.slow, slow),
        noResponse |-> add(b.noResponse, silent),
        noResponseGen |-> IF silent THEN generation ELSE b.noResponseGen,
        slowRetired |-> add(b.slowRetired, retired),
        slowRetiredGen |-> IF retired THEN generation ELSE b.slowRetiredGen]

\* The repair of a quarantined connection installs the next generation.
Repair(i) ==
    /\ owner[i].quarantined
    /\ owner' = [owner EXCEPT ![i].generation = @ + 1, ![i].quarantined = FALSE]
    /\ UNCHANGED <<raced, now, h, rpc, resets, cell, sent, faults, good, proven>>

-----------------------------------------------------------------------------
(* Owners *)

Observation(o, busy, business) ==
    [at |-> now, generation |-> o.generation, quarantined |-> o.quarantined,
     busy |-> busy, business |-> business]

\* Top of an owner's loop, after a command, a heartbeat or a health hint: a
\* closed idle socket is retired.  The business captured here is the latest until
\* the next reply, which is followed by this again.
AtTop(i, closed) ==
    /\ owner[i].alive /\ owner[i].pc \in {"top", "wait"}
    /\ closed => ~owner[i].quarantined
    /\ UNCHANGED <<now, h, rpc, resets, sent, good, proven>>
AfterTop(o, closed) == [o EXCEPT !.pc = "wait", !.quarantined = @ \/ closed]

\* publish_poly_owner_health loads `occupied`, then reads the clock.  The owner
\* takes no command in between, so the router's steps there can only queue one:
\* a heartbeat is early when its load came before the command it now finds queued.
OwnerHeartbeat(i, closed, early) ==
    /\ AtTop(i, closed)
    /\ early => owner[i].occupied
    /\ Fault(Count(closed) + Count(early))
    /\ LET o == AfterTop(owner[i], closed) IN
       /\ owner' = [owner EXCEPT ![i] = o]
       /\ cell' = [cell EXCEPT ![i] = Observation(o, o.occupied /\ ~early, o.business)]
    /\ raced' = (raced \/ early)

\* Context::maintain of a cancel owner: the clock is read before `occupied`,
\* and nothing depends on whether a cancel lane is busy.
CancelPublish(i, closed) ==
    /\ AtTop(i, closed)
    /\ Fault(Count(closed))
    /\ LET o == AfterTop(owner[i], closed) IN
       /\ owner' = [owner EXCEPT ![i] = o]
       /\ cell' = [cell EXCEPT ![i] = Observation(o, o.occupied, o.business)]
    /\ UNCHANGED raced

Released(i, o) == [o EXCEPT !.pc = Top(i), !.occupied = FALSE, !.job = "None",
                              !.jobGen = 0, !.tag = 0]

\* The owner takes its command: a refresh retires the generation it names, a
\* place is refused when its quote is stale, for another or a quarantined
\* generation, else it is sent.
OwnerTakes(i, stale) ==
    /\ owner[i].alive /\ owner[i].pc = "wait" /\ owner[i].job # "None"
    /\ (stale => owner[i].job = "place") /\ Fault(Count(stale))
    /\ LET o == owner[i]
           current == o.jobGen = o.generation
       IN owner' = [owner EXCEPT ![i] =
            IF o.job = "refresh" THEN Released(i, [o EXCEPT !.quarantined = @ \/ current])
            ELSE IF stale \/ o.quarantined \/ ~current THEN Released(i, o)
            ELSE [o EXCEPT !.pc = "run"]]
    /\ UNCHANGED <<raced, now, h, rpc, resets, cell, sent, good, proven>>

\* A health hint while the request is in flight: occupied, and no new business.
OwnerPublishInFlight(i) ==
    /\ owner[i].alive /\ owner[i].pc = "run"
    /\ cell' = [cell EXCEPT ![i] = Observation(owner[i], TRUE, owner[i].business)]
    /\ UNCHANGED <<raced, now, h, rpc, resets, owner, sent, faults, good, proven>>

Adverse(outcome) == Count(outcome # "Healthy")

\* The reply: its outcome is recorded, a transport failure or a repeated slow
\* response retires the connection, and the guard releases `occupied`.
OwnerCompletes(i, outcome) ==
    /\ owner[i].alive /\ owner[i].pc = "run"
    /\ Fault(Adverse(outcome))
    /\ LET o == owner[i] IN
       owner' = [owner EXCEPT ![i] =
         Released(i, [o EXCEPT
           !.business = record_business_outcome(@, o.jobGen, outcome),
           !.quarantined = @ \/ outcome \in {"TransportUncertain", "SlowRetired"}])]
    /\ IF outcome = "Healthy"
       THEN /\ good' = Append(good, owner[i].tag)
            /\ proven' = proven \cup {<<i, owner[i].jobGen>>}
       ELSE UNCHANGED <<good, proven>>
    /\ UNCHANGED <<raced, now, h, rpc, resets, cell, sent>>

\* A cancel request on lane i, from dispatch to reply.  Only after an adverse
\* outcome does the router's verdict depend on a healthy one.
CancelCompletes(i, outcome) ==
    /\ owner[i].alive /\ owner[i].job = "None"
    /\ Fault(Adverse(outcome))
    /\ outcome = "Healthy" => owner[i].business.outcome \notin {"Healthy", "None"}
    /\ owner' = [owner EXCEPT
         ![i].business = record_business_outcome(@, owner[i].generation, outcome),
         ![i].quarantined = @ \/ outcome \in {"TransportUncertain", "SlowRetired"}]
    /\ IF outcome = "Healthy" THEN proven' = proven \cup {<<i, owner[i].generation>>}
       ELSE UNCHANGED proven
    /\ UNCHANGED <<raced, now, h, rpc, resets, cell, sent, good>>

OwnerDies(i) ==
    /\ owner[i].alive
    /\ Fault(1)
    /\ owner' = [owner EXCEPT ![i].alive = FALSE]
    /\ UNCHANGED <<raced, now, h, rpc, resets, cell, sent, good, proven>>

-----------------------------------------------------------------------------
(* Router *)

\* One lane of refresh_health: its observation, or the loss of its owner.
Drain(i, r) ==
    IF cell[i] # NoObservation THEN observe(r, i, cell[i], now)
    ELSE IF ~owner[i].alive THEN mark_delivery_fault(r, i, now)
    ELSE r

\* h when refresh_health has drained the first k lanes.
Drained[k \in 0 .. Len(LaneOrder)] ==
    IF k = 0 THEN h ELSE Drain(LaneOrder[k], Drained[k - 1])

\* refresh_health up to its publication (AdmissionLane): drain every lane, retire
\* all generations on a private or peer reset, hand out pending transport
\* refreshes to idle owners, recompute the verdict.  try_send_poly_owner starts
\* with it.
RefreshHealth(reset, next) ==
    /\ rpc = "idle" /\ (next = "selecting" => sent < MaxSend)
    /\ Fault(Count(reset))
    /\ LET drained == Drained[Len(LaneOrder)]
           judged == IF reset THEN retire_transport_generations(drained, now) ELSE drained
           pending == IF judged.reset_pending
                      THEN [i \in Lanes |-> judged.lane[i].retired] ELSE resets
           takes(i) == pending[i] # NoGen /\ ~owner[i].occupied /\ owner[i].alive
       IN /\ h' = refresh([judged EXCEPT !.reset_pending = FALSE], now)
          /\ resets' = [i \in Lanes |-> IF takes(i) THEN NoGen ELSE pending[i]]
          /\ owner' = [i \in Lanes |->
               IF takes(i) THEN [owner[i] EXCEPT !.occupied = TRUE, !.job = "refresh",
                                                 !.jobGen = pending[i]]
               ELSE owner[i]]
    /\ cell' = [i \in Lanes |-> NoObservation]
    /\ rpc' = next
    /\ UNCHANGED <<raced, now, sent, good, proven>>

\* try_send_poly_owner skips it when nothing is unread and the last is recent,
\* which makes a difference if a refresh is pending or an owner is lost.
SkipRefresh ==
    /\ rpc = "idle" /\ sent < MaxSend
    /\ \A i \in Lanes : cell[i] = NoObservation
    /\ \E i \in Lanes : resets[i] # NoGen \/ ~owner[i].alive
    /\ rpc' = "selecting"
    /\ UNCHANGED <<raced, now, h, resets, cell, owner, sent, faults, good, proven>>

Accepts(r, f) == lane_place_allowed(r, f, now) /\ ~owner[f].occupied /\ owner[f].alive

\* try_send_slot takes `occupied` and enqueues the place for the lane's
\* generation; place_dispatched follows at once.
Enqueue(f) ==
    /\ rpc = "selecting"
    /\ LET r == refresh(h, now) IN
       /\ Accepts(r, f)
       /\ h' = place_dispatched(r, f, now)
    /\ owner' = [owner EXCEPT ![f].occupied = TRUE, ![f].job = "place",
                              ![f].jobGen = h.lane[f].generation, ![f].tag = h.adverse]
    /\ rpc' = "idle"
    /\ sent' = sent + 1
    /\ Fault(Count(cell[f].at = now)) /\ raced' = (raced \/ cell[f].at = now)
    /\ UNCHANGED <<now, resets, cell, good, proven>>

\* No lane takes the place; it is handed back.
Refuse ==
    /\ rpc = "selecting"
    /\ h' = refresh(h, now)
    /\ \A f \in Fast : ~Accepts(h', f)
    /\ rpc' = "idle"
    /\ UNCHANGED <<raced, now, resets, cell, owner, sent, faults, good, proven>>

-----------------------------------------------------------------------------
Next ==
    \/ Tick \/ SkipRefresh \/ Refuse
    \/ \E reset \in BOOLEAN, next \in {"idle", "selecting"} : RefreshHealth(reset, next)
    \/ \E f \in Fast : OwnerPublishInFlight(f) \/ \E k \in Outcomes : OwnerCompletes(f, k)
    \/ \E c \in Cancel : \/ \E closed \in BOOLEAN : CancelPublish(c, closed)
                        \/ \E k \in Outcomes : CancelCompletes(c, k)
    \/ \E i \in Lanes : \/ Repair(i) \/ OwnerDies(i)
                        \/ \E stale \in BOOLEAN : OwnerTakes(i, stale)
    \/ \E f \in Fast : \/ Enqueue(f)
                       \/ \E closed, early \in BOOLEAN : OwnerHeartbeat(f, closed, early)

Spec == Init /\ [][Next]_vars

-----------------------------------------------------------------------------
(* Properties *)

\* "Never allow a cached result to cross a lease/recovery boundary": at every
\* instant the verdict that refresh returns, from its cache or not, is the one
\* its full computation gives.
CacheCoherent ==
    LET cached == refresh(h, now)  full == Recompute(h, now) IN
    /\ cached.state = full.state /\ cached.slots = full.slots
    /\ cached.recovery_required = full.recovery_required
    /\ cached.successes = full.successes /\ cached.probe = full.probe
    /\ cached.probation_busy = full.probation_busy

\* Recovery is earned: outside it, enough places that the router dispatched
\* after the last adverse observation or pause before its end were answered
\* healthily, although observations are coalesced, late and of several lanes.  Not
\* claimed once a command was queued between a heartbeat's load of `occupied` and
\* its stamp, or at the very instant of an unread stamp.
RecoveryEarned ==
    ~raced /\ ~h.recovery_required
      => Cardinality({k \in DOMAIN good : good[k] = h.ended}) >= max(recovery_successes, 1)

\* "An already queued idle heartbeat cannot clear a root-side dispatch": a lane
\* whose owner holds a place is busy in the router's eyes, with RecoveryEarned's
\* exception.
BusyKnown == ~raced => \A f \in Fast : owner[f].job = "place" => h.lane[f].busy

\* A lane is verified only on a generation that answered a request healthily: a
\* prewarmed replacement is probation until it has done business.
VerifiedProven ==
    \A i \in Lanes : h.lane[i].verified => <<i, h.lane[i].generation>> \in proven

\* "Recovery promises at most one request in flight account-wide": in recovery
\* no place is enqueued while another Fast owner has one.
OneProbe ==
    [][\A f \in Fast : Enqueue(f) /\ h'.recovery_required
         => \A g \in Fast \ {f} : owner[g].job # "place"]_vars
=============================================================================
