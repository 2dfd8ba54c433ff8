---------------------------- MODULE PollChannel ----------------------------
(***************************************************************************)
(* hexagent-runtime/src/poll_channel.rs over wake.rs: a bounded channel    *)
(* from several Senders to one Receiver that parks on a futex word, and    *)
(* the coalesced StateNotification that shares the same wake.  The queue   *)
(* is the FIFO that TryQueue implements, with a reservation and its        *)
(* publication as two steps; the n-th reservation carries the value n.     *)
(* The receiver either blocks in recv_with_control or repeats              *)
(* recv_timeout_observed_interruptible; a park may also end at any time by *)
(* its timeout or an interrupt.  Memory is sequentially consistent.        *)
(***************************************************************************)
EXTENDS Integers, Sequences, FiniteSets

CONSTANTS
    Senders,              \* sender handles that can ever exist
    First,                \* the handle that bounded() returns
    Capacity,
    MaxSend,              \* bound on accepted values
    MaxState              \* bound on control-state changes

ASSUME ChannelAssumption ==
    /\ First \in Senders
    /\ Capacity \in Nat \ {0}
    /\ MaxSend \in Nat /\ MaxState \in Nat

VARIABLES
    queue,                \* Shared.queue: [val, ready] from head to tail
    senders,              \* Shared.senders
    receiver_alive,       \* Shared.receiver_alive
    bound,                \* Shared.wake and StateNotification.wake are set
    armed,                \* Wake.armed = 1
    pending,              \* StateNotification.pending
    state,                \* the control state, as its version
    interruptible,        \* the receive call: recv_timeout_impl or recv_with_control
    spc, sval,            \* sender: program counter, value in transfer
    npc,                  \* writer of the control state: program counter
    rpc, rechecking,      \* receiver: program counter, after arm()?
    accepted,             \* history: reservations made
    delivered,            \* history: values returned by the receive calls
    seen                  \* control state the receiver's owner last read

wvars == <<bound, armed>>
svars == <<senders, spc, sval, accepted>>
nvars == <<pending, state, npc>>
rvars == <<receiver_alive, interruptible, rpc, rechecking, delivered, seen>>
vars == <<queue, wvars, svars, nvars, rvars>>

Init ==
    /\ queue = <<>>
    /\ senders = 1
    /\ receiver_alive = TRUE
    /\ interruptible \in BOOLEAN
    /\ bound \in BOOLEAN
    /\ armed = FALSE
    /\ pending = FALSE
    /\ state = 0
    /\ spc = [s \in Senders |-> IF s = First THEN "idle" ELSE "absent"]
    /\ sval = [s \in Senders |-> 0]
    /\ npc = "idle"
    /\ rpc = "top"
    /\ rechecking = FALSE
    /\ accepted = 0
    /\ delivered = <<>>
    /\ seen = 0

-----------------------------------------------------------------------------
(* Wake *)

\* Wake::notify(), its exchange: only the notifier that clears the armed word
\* goes on to the futex call.
Swap(continue, woken) ==
    IF bound /\ armed THEN woken /\ armed' = FALSE
                      ELSE continue /\ UNCHANGED armed

\* Wake::notify(), FUTEX_WAKE: the parked receiver, if any, resumes.
FutexWake == rpc' = IF rpc = "parked" THEN "resumed" ELSE rpc

-----------------------------------------------------------------------------
(* Senders *)

Clone(s, t) ==
    /\ spc[s] = "idle" /\ spc[t] = "absent"
    /\ senders' = senders + 1
    /\ spc' = [spc EXCEPT ![t] = "idle"]
    /\ UNCHANGED <<queue, wvars, sval, accepted, nvars, rvars>>

\* try_send() and its variants, also each turn of send() and send_timeout():
\* a dead receiver refuses the value.
SendCheckAlive(s) ==
    /\ spc[s] = "idle" /\ receiver_alive
    /\ accepted + Cardinality({t \in Senders : spc[t] = "push"}) < MaxSend
    /\ spc' = [spc EXCEPT ![s] = "push"]
    /\ UNCHANGED <<queue, wvars, senders, sval, accepted, nvars, rvars>>

SendReserve(s) ==
    /\ spc[s] = "push"
    /\ Len(queue) < Capacity
    /\ accepted' = accepted + 1
    /\ sval' = [sval EXCEPT ![s] = accepted + 1]
    /\ queue' = Append(queue, [val |-> accepted + 1, ready |-> FALSE])
    /\ spc' = [spc EXCEPT ![s] = "publish"]
    /\ UNCHANGED <<wvars, senders, nvars, rvars>>

\* A full queue or a lost compare-exchange hands the value back.
SendFull(s) ==
    /\ spc[s] = "push"
    /\ Len(queue) = Capacity \/ \E t \in Senders \ {s} : spc[t] \in {"push", "publish"}
    /\ spc' = [spc EXCEPT ![s] = "idle"]
    /\ UNCHANGED <<queue, wvars, senders, sval, accepted, nvars, rvars>>

SendPublish(s) ==
    /\ spc[s] = "publish"
    /\ queue' = [i \in DOMAIN queue |->
                   IF queue[i].val = sval[s] THEN [queue[i] EXCEPT !.ready = TRUE]
                                             ELSE queue[i]]
    /\ spc' = [spc EXCEPT ![s] = "notify"]
    /\ sval' = [sval EXCEPT ![s] = 0]
    /\ UNCHANGED <<wvars, senders, accepted, nvars, rvars>>

SendNotify(s) ==
    /\ spc[s] = "notify"
    /\ Swap(spc' = [spc EXCEPT ![s] = "idle"], spc' = [spc EXCEPT ![s] = "wake"])
    /\ UNCHANGED <<queue, bound, senders, sval, accepted, nvars, rvars>>

SendWake(s) ==
    /\ spc[s] = "wake"
    /\ FutexWake
    /\ spc' = [spc EXCEPT ![s] = "idle"]
    /\ UNCHANGED <<queue, wvars, senders, sval, accepted, nvars,
                   receiver_alive, interruptible, rechecking, delivered, seen>>

\* The last sender goes away without a notification.
DropSender_Silent(s) ==
    /\ spc[s] = "idle"
    /\ senders' = senders - 1
    /\ spc' = [spc EXCEPT ![s] = "gone"]
    /\ UNCHANGED <<queue, wvars, sval, accepted, nvars, rvars>>

\* Drop for Sender: the last one also notifies.
DropSender(s) ==
    /\ spc[s] = "idle"
    /\ senders' = senders - 1
    /\ spc' = [spc EXCEPT ![s] = IF senders = 1 THEN "lastNotify" ELSE "gone"]
    /\ UNCHANGED <<queue, wvars, sval, accepted, nvars, rvars>>

LastNotify(s) ==
    /\ spc[s] = "lastNotify"
    /\ Swap(spc' = [spc EXCEPT ![s] = "gone"], spc' = [spc EXCEPT ![s] = "lastWake"])
    /\ UNCHANGED <<queue, bound, senders, sval, accepted, nvars, rvars>>

LastWake(s) ==
    /\ spc[s] = "lastWake"
    /\ FutexWake
    /\ spc' = [spc EXCEPT ![s] = "gone"]
    /\ UNCHANGED <<queue, wvars, senders, sval, accepted, nvars,
                   receiver_alive, interruptible, rechecking, delivered, seen>>

-----------------------------------------------------------------------------
(* StateNotification *)

\* A writer publishes the authoritative state before it notifies.
StateChange ==
    /\ npc = "idle" /\ state < MaxState
    /\ state' = state + 1
    /\ npc' = "pending"
    /\ UNCHANGED <<queue, wvars, svars, pending, rvars>>

\* The writer relies on the wake alone and leaves no durable hint.
StateSetPending_WakeOnly ==
    /\ npc = "pending"
    /\ npc' = "notify"
    /\ UNCHANGED <<queue, wvars, svars, pending, state, rvars>>

StateSetPending ==
    /\ npc = "pending"
    /\ pending' = TRUE
    /\ npc' = "notify"
    /\ UNCHANGED <<queue, wvars, svars, state, rvars>>

StateNotify ==
    /\ npc = "notify"
    /\ Swap(npc' = "idle", npc' = "wake")
    /\ UNCHANGED <<queue, bound, svars, pending, state, rvars>>

StateWake ==
    /\ npc = "wake"
    /\ FutexWake
    /\ npc' = "idle"
    /\ UNCHANGED <<queue, wvars, svars, pending, state,
                   receiver_alive, interruptible, rechecking, delivered, seen>>

-----------------------------------------------------------------------------
(* Receiver *)

\* bind_wake(): startup only, before the owner first parks.
BindWake ==
    /\ rpc = "top" /\ ~bound
    /\ bound' = TRUE
    /\ UNCHANGED <<queue, armed, svars, nvars, rvars>>

\* One turn of the receive loop; the interruptible form asks interrupted() first.
LoopTop ==
    /\ rpc = "top"
    /\ rpc' = IF interruptible THEN "interrupted" ELSE "pop"
    /\ rechecking' = FALSE
    /\ UNCHANGED <<queue, wvars, svars, nvars, receiver_alive, interruptible, delivered, seen>>

\* take_pending(), as `control` or `interrupted`; a hit is followed by a read of
\* the complete current state, a miss by the next receive attempt.
TakePending ==
    /\ rpc \in {"interrupted", "control"}
    /\ pending' = FALSE
    /\ rpc' = IF pending THEN "refresh" ELSE "pop"
    /\ UNCHANGED <<queue, wvars, svars, state, npc, receiver_alive, interruptible,
                   rechecking, delivered, seen>>

\* The interruptible call returns to its owner, cancelling an armed wake; the
\* blocking call goes on with its second receive attempt.
Refresh ==
    /\ rpc = "refresh"
    /\ seen' = state
    /\ rpc' = IF interruptible THEN (IF rechecking THEN "cancel" ELSE "top") ELSE "pop"
    /\ UNCHANGED <<queue, wvars, svars, nvars, receiver_alive,
                   interruptible, rechecking, delivered>>

HeadReady == queue # <<>> /\ Head(queue).ready

Deliver ==
    /\ delivered' = Append(delivered, Head(queue).val)
    /\ queue' = Tail(queue)
    /\ rpc' = IF rechecking THEN "cancel" ELSE "top"

\* try_recv(), its first pop.
TryRecvPop ==
    /\ rpc = "pop"
    /\ \/ HeadReady /\ Deliver
       \/ ~HeadReady /\ rpc' = "senders" /\ UNCHANGED <<delivered, queue>>
    /\ UNCHANGED <<wvars, svars, nvars, receiver_alive, interruptible, rechecking, seen>>

AfterEmpty ==
    CASE rechecking -> "wait"
      [] ~rechecking /\ bound -> "arm"
      [] OTHER -> "nap"

\* No second look at the queue once the senders are gone.
TryRecvSenders_NoRetry ==
    /\ rpc = "senders"
    /\ rpc' = IF senders = 0 THEN "disconnected" ELSE AfterEmpty
    /\ UNCHANGED <<queue, wvars, svars, nvars, receiver_alive,
                   interruptible, rechecking, delivered, seen>>

\* try_recv(): without senders the queue is looked at once more.
TryRecvSenders ==
    /\ rpc = "senders"
    /\ rpc' = IF senders = 0 THEN "repop" ELSE AfterEmpty
    /\ UNCHANGED <<queue, wvars, svars, nvars, receiver_alive,
                   interruptible, rechecking, delivered, seen>>

TryRecvRetry ==
    /\ rpc = "repop"
    /\ \/ HeadReady /\ Deliver /\ UNCHANGED armed
       \/ /\ ~HeadReady
          /\ rpc' = "disconnected"
          /\ armed' = (armed /\ ~rechecking)
          /\ UNCHANGED <<delivered, queue>>
    /\ UNCHANGED <<bound, svars, nvars, receiver_alive, interruptible, rechecking, seen>>

\* The receiver parks on what it saw before it armed the wake.
Arm_NoRecheck ==
    /\ rpc = "arm"
    /\ armed' = TRUE
    /\ rechecking' = TRUE
    /\ rpc' = "wait"
    /\ UNCHANGED <<queue, bound, svars, nvars, receiver_alive, interruptible, delivered, seen>>

Arm ==
    /\ rpc = "arm"
    /\ armed' = TRUE
    /\ rechecking' = TRUE
    /\ rpc' = "control"
    /\ UNCHANGED <<queue, bound, svars, nvars, receiver_alive, interruptible, delivered, seen>>

\* Without a wake handle the blocking form runs `control` and both sleep.
Nap ==
    /\ rpc = "nap"
    /\ IF interruptible \/ ~pending
       THEN UNCHANGED <<pending, seen>>
       ELSE pending' = FALSE /\ seen' = state
    /\ rpc' = "top"
    /\ UNCHANGED <<queue, wvars, svars, state, npc, receiver_alive,
                   interruptible, rechecking, delivered>>

\* FUTEX_WAIT: the kernel parks the caller only if the word is still armed.
Wait ==
    /\ rpc = "wait"
    /\ rpc' = IF armed THEN "parked" ELSE "resumed"
    /\ UNCHANGED <<queue, wvars, svars, nvars, receiver_alive,
                   interruptible, rechecking, delivered, seen>>

\* Timeout, EINTR or a spurious return.
WaitExpires ==
    /\ rpc = "parked"
    /\ rpc' = "resumed"
    /\ UNCHANGED <<queue, wvars, svars, nvars, receiver_alive,
                   interruptible, rechecking, delivered, seen>>

\* cancel(): at the end of wait() or when the second attempt has an outcome.
Cancel ==
    /\ rpc \in {"resumed", "cancel"}
    /\ armed' = FALSE
    /\ rpc' = "top"
    /\ UNCHANGED <<queue, bound, svars, nvars, receiver_alive, interruptible, rechecking, delivered, seen>>

\* Drop for Receiver, between two receive calls.
DropReceiver ==
    /\ rpc \in {"top", "disconnected"}
    /\ receiver_alive' = FALSE
    /\ rpc' = "gone"
    /\ UNCHANGED <<queue, wvars, svars, nvars, interruptible, rechecking, delivered, seen>>

-----------------------------------------------------------------------------
SenderStep(s) ==
    \/ SendReserve(s) \/ SendFull(s) \/ SendPublish(s) \/ SendNotify(s) \/ SendWake(s)
    \/ LastNotify(s) \/ LastWake(s)

NotifierStep == StateSetPending \/ StateNotify \/ StateWake

ReceiverStep ==
    \/ LoopTop \/ TakePending \/ Refresh \/ TryRecvPop \/ TryRecvSenders
    \/ TryRecvRetry \/ Arm \/ Nap \/ Wait \/ Cancel

Next ==
    \/ \E s \in Senders : \/ SendCheckAlive(s) \/ SenderStep(s) \/ DropSender(s)
                          \/ \E t \in Senders : Clone(s, t)
    \/ StateChange \/ NotifierStep
    \/ BindWake \/ ReceiverStep \/ WaitExpires \/ DropReceiver

Spec == Init /\ [][Next]_vars

\* Threads inside an operation run on and the owner keeps receiving.  Nothing
\* is assumed of the park's timeout, so what is shown does not lean on it.
FairSpec ==
    /\ Spec
    /\ \A s \in Senders : WF_vars(SenderStep(s))
    /\ WF_vars(NotifierStep)
    /\ WF_vars(ReceiverStep)

-----------------------------------------------------------------------------
(* Properties *)

\* Disconnected is reported only when every accepted value has been delivered, once
\* and in the order of the reservations, although the last send and drop race with
\* the two pops of try_recv().
DisconnectedIsDrained == rpc = "disconnected" => delivered = [i \in 1..accepted |-> i]

\* Something the receiver has to see before it may sleep: a ready value, a
\* pending control hint, or the end of the senders.
Work == HeadReady \/ pending \/ senders = 0

BeforeSwap == \/ \E s \in Senders : spc[s] \in {"notify", "lastNotify"}
              \/ npc = "notify"
BeforeWake == \/ \E s \in Senders : spc[s] \in {"wake", "lastWake"}
              \/ npc = "wake"

\* A parked receiver with work to see is always covered by a notifier that has
\* yet to exchange the armed word or yet to make the futex call it owes: the
\* arm, recheck, wait order loses no wake-up, without help from the timeout.
NoLostWakeup ==
    rpc = "parked" => /\ Work /\ armed => BeforeSwap
                      /\ ~armed => BeforeWake

\* Every accepted value reaches the receiver unless it is dropped (again and
\* again it has caught up with all of them), and the end of the senders is
\* noticed, without the park's 60 s timeout.
Delivered ==
    /\ []<>(Len(delivered) = accepted \/ ~receiver_alive)
    /\ (senders = 0) ~> (rpc = "disconnected" \/ ~receiver_alive)

\* Every control-state change is read by the owner, or a later one is: one pending bit is enough
\* because the state is published before the bit (wake.rs:184-188).
StateSeen ==
    []<>(seen = state \/ rpc \in {"disconnected", "gone"})
=============================================================================
