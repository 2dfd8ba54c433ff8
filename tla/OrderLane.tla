------------------------------ MODULE OrderLane ------------------------------
(***************************************************************************)
(* The persistent HTTP order lanes: hexagent-runtime's root_owner.rs       *)
(* (actors polled by a root future), reply_slots.rs (reusable completion   *)
(* slots) and the HttpOrderLane of hexagent-exchange that joins them.      *)
(* A lane stands for one connection owner: the thread that registers the   *)
(* actor, fires requests and owns the pool of reply slots.  The reactor    *)
(* thread polls the Driver.  A completion may be consumed at any time      *)
(* after its request was fired.                                            *)
(* The queues are the FIFO that TryQueue implements, a reservation and its *)
(* publication being two steps; a pop may fail because another drainer     *)
(* won.  Dropping a command (reply, then endpoint, then metadata) is one   *)
(* step; Command::run performs the three one by one.  Memory is            *)
(* sequentially consistent.                                                *)
(***************************************************************************)
EXTENDS Integers, Sequences, FiniteSets

CONSTANTS
    Lanes,                \* connection owners, each with its actor
    Capacity,             \* Shared.capacity: actors the driver may hold
    Mailbox,              \* commands a mailbox retains
    PoolSize,             \* reply slots of one owner
    MaxRequests,          \* bound on checkouts
    MaxEvents             \* bound on disturbances: a panic, an abandoned completion,
                          \* a failed preparation, a dropped lane

ASSUME LaneAssumption ==
    /\ Capacity \in Nat \ {0} /\ Mailbox \in Nat \ {0} /\ PoolSize \in Nat \ {0}
    /\ MaxRequests \in Nat /\ MaxEvents \in Nat

VARIABLES
    alive,                \* Shared.alive
    reserved,             \* Shared.reserved
    incoming,             \* Shared.incoming: [lane, ready] from head to tail
    actors,               \* Driver.actors
    installed, woken,     \* Shared.waker is set; the root is to be polled again
    dpc, index, closing,  \* reactor: program counter, actor polled, inbox dropped
    mail,                 \* per lane, its mailbox: [cmd, ready]
    inbox,                \* per lane, the mailbox's receiver_alive
    senders,              \* per lane, its Sender exists
    yield_next,           \* per lane, Inbox.yield_next
    apc, cmd,             \* per lane, the actor: await point, command it runs
    slots,                \* per lane, Pool.slots
    opc, own, target,     \* per lane, the owner: program counter, command in hand,
                          \* lane whose inbox it drops
    resident,             \* idle actors that other components registered before
    requests, events,     \* checkouts and disturbances so far
    served                \* history: lanes that completed a command in this poll

rootVars == <<alive, reserved, incoming, actors, installed, woken>>
reactorVars == <<dpc, index, closing, served>>
laneVars == <<mail, inbox, senders, yield_next, apc, cmd>>
ownerVars == <<opc, own, target>>
bounds == <<resident, requests, events>>
vars == <<rootVars, reactorVars, laneVars, slots, ownerVars, bounds>>

Requests == 1..MaxRequests
None == 0
NoCommand == [req |-> None, slot |-> None]
Pool == 1..PoolSize

\* Of a slot: the requests whose Sender (tx) and Receiver (rx) exist, those
\* whose writer and reader hold the metadata, the channel, and the request the
\* metadata was reset for.
EmptySlot == [tx |-> {}, rx |-> {}, writers |-> {}, readers |-> {},
              channel |-> <<>>, timing |-> None]

\* Where the reactor goes on once an inbox is dropped.
NoInbox == [lane |-> None, then |-> "idle"]

Init ==
    /\ resident \in 0..(Capacity - 1)
    /\ alive = TRUE /\ reserved = resident /\ incoming = <<>> /\ actors = <<>>
    /\ installed = FALSE /\ woken = FALSE
    /\ dpc = "unpolled" /\ index = 1 /\ closing = NoInbox
    /\ mail = [l \in Lanes |-> <<>>]
    /\ inbox = [l \in Lanes |-> TRUE]
    /\ senders = [l \in Lanes |-> TRUE]
    /\ yield_next = [l \in Lanes |-> FALSE]
    /\ apc = [l \in Lanes |-> "recv"]
    /\ cmd = [l \in Lanes |-> NoCommand]
    /\ slots = [l \in Lanes |-> [s \in Pool |-> EmptySlot]]
    /\ opc = [l \in Lanes |-> "new"]
    /\ own = [l \in Lanes |-> NoCommand]
    /\ target = [l \in Lanes |-> None]
    /\ requests = 0 /\ events = 0
    /\ served = {}

-----------------------------------------------------------------------------
(* Reply slots *)

\* poll_channel's try_send on a channel of one value: a second one is refused.
Deliver(slot, req, kind) ==
    IF slot.channel = <<>> THEN [slot EXCEPT !.channel = <<[req |-> req, kind |-> kind]>>]
                           ELSE slot

\* Sender::try_send: the reply, then the endpoint goes away.
Reply(slot, req, kind) == [Deliver(slot, req, kind) EXCEPT !.tx = @ \ {req}]

\* An abandoned Sender just disappears.
DropCommand_Silent(slot, req) ==
    [slot EXCEPT !.tx = @ \ {req}, !.writers = @ \ {req}]

\* A command that was dropped counts as one that was not sent.
DropCommand_NotSent(slot, req) ==
    [Reply(slot, req, "not_sent") EXCEPT !.writers = @ \ {req}]

\* A command dropped unanswered: Drop for Sender publishes the typed failure.
DropCommand(slot, req) ==
    [Reply(slot, req, "dropped") EXCEPT !.writers = @ \ {req}]

\* Command::reject answers before the mailbox took the command.
RejectCommand(slot, req) ==
    [Reply(slot, req, "not_sent") EXCEPT !.writers = @ \ {req}]

\* The Receiver and its metadata handle go away.
DropReceiver(slot, req) == [slot EXCEPT !.rx = @ \ {req}, !.readers = @ \ {req}]

\* Reuse waits for the two endpoints only.
Reusable_IgnoreMetadata(slot) == slot.tx = {} /\ slot.rx = {}

\* Both strong counts are one: the pool holds the only handles.
Reusable(slot) ==
    slot.tx = {} /\ slot.rx = {} /\ slot.writers = {} /\ slot.readers = {}

\* A reply that nobody took stays in the channel.
Renew_KeepsReply(slot, req) ==
    [tx |-> slot.tx \union {req}, rx |-> slot.rx \union {req},
     writers |-> slot.writers \union {req}, readers |-> slot.readers \union {req},
     channel |-> slot.channel, timing |-> req]

\* checkout: the channel is drained, the metadata reset, the handles cloned.
Renew(slot, req) ==
    [tx |-> slot.tx \union {req}, rx |-> slot.rx \union {req},
     writers |-> slot.writers \union {req}, readers |-> slot.readers \union {req},
     channel |-> <<>>, timing |-> req]

InSlot(l, c, Op(_, _)) == [slots EXCEPT ![l][c.slot] = Op(@, c.req)]

-----------------------------------------------------------------------------
(* Registration, on the owner's thread *)

\* A disturbance, within the bound.
Disturb == events < MaxEvents /\ events' = events + 1

GoTo(l, pc) == opc' = [opc EXCEPT ![l] = pc]

\* Shared::wake: nothing before the first poll of the root.
Wake == woken' = (woken \/ installed)

\* register: the root is alive and has room for one more actor.  The load of
\* alive commutes with all that others do before the reservation.
RegisterReserve(l) ==
    /\ opc[l] = "new"
    /\ \/ /\ alive /\ reserved < Capacity
          /\ reserved' = reserved + 1
          /\ GoTo(l, "push")
       \/ /\ ~alive \/ reserved >= Capacity
          /\ GoTo(l, "refused")
          /\ UNCHANGED reserved
    /\ UNCHANGED <<alive, incoming, actors, installed, woken, reactorVars,
                   laneVars, slots, own, target, bounds>>

\* try_push on incoming: a slot, or a lost race with another registration.
RegisterPush(l) ==
    /\ opc[l] = "push"
    /\ \/ /\ Len(incoming) < Capacity
          /\ incoming' = Append(incoming, [lane |-> l, ready |-> FALSE])
          /\ GoTo(l, "publish")
       \/ /\ \/ Len(incoming) >= Capacity
             \/ \E k \in Lanes \ {l} : opc[k] \in {"publish", "recheck"}
          /\ GoTo(l, "unreserve")
          /\ UNCHANGED incoming
    /\ UNCHANGED <<alive, reserved, actors, installed, woken, reactorVars,
                   laneVars, slots, own, target, bounds>>

\* A registration that failed keeps its reservation.
RegisterUnreserve_Leaks(l) ==
    /\ opc[l] = "unreserve"
    /\ GoTo(l, "refused")
    /\ UNCHANGED <<rootVars, reactorVars, laneVars, slots, own, target, bounds>>

RegisterUnreserve(l) ==
    /\ opc[l] = "unreserve"
    /\ reserved' = reserved - 1
    /\ GoTo(l, "refused")
    /\ UNCHANGED <<alive, incoming, actors, installed, woken, reactorVars,
                   laneVars, slots, own, target, bounds>>

RegisterPublish(l) ==
    /\ opc[l] = "publish"
    /\ incoming' = [i \in DOMAIN incoming |->
                      IF incoming[i].lane = l THEN [incoming[i] EXCEPT !.ready = TRUE]
                                              ELSE incoming[i]]
    /\ GoTo(l, "recheck")
    /\ UNCHANGED <<alive, reserved, actors, installed, woken, reactorVars,
                   laneVars, slots, own, target, bounds>>

\* The second look at alive is left out.
RegisterRecheck_Trusting(l) ==
    /\ opc[l] = "recheck"
    /\ GoTo(l, "bound")
    /\ UNCHANGED <<rootVars, reactorVars, laneVars, slots, own, target, bounds>>

RegisterRecheck(l) ==
    /\ opc[l] = "recheck"
    /\ GoTo(l, IF alive THEN "bound" ELSE "drain")
    /\ UNCHANGED <<rootVars, reactorVars, laneVars, slots, own, target, bounds>>

HeadReady(queue) == queue # <<>> /\ Head(queue).ready

\* The root stopped: drop every actor still queued, not only one's own.  The
\* Sender was never returned, so it goes too.
RegisterDrain(l) ==
    /\ opc[l] = "drain"
    /\ \/ /\ HeadReady(incoming)
          /\ incoming' = Tail(incoming)
          /\ target' = [target EXCEPT ![l] = Head(incoming).lane]
          /\ GoTo(l, "drop_inbox")
          /\ UNCHANGED senders
       \/ /\ \/ ~HeadReady(incoming)
             \/ dpc = "drop_incoming"
             \/ \E k \in Lanes \ {l} : opc[k] = "drain"
          /\ GoTo(l, "refused")
          /\ senders' = [senders EXCEPT ![l] = FALSE]
          /\ UNCHANGED <<incoming, target>>
    /\ UNCHANGED <<alive, reserved, actors, installed, woken, reactorVars, mail,
                   inbox, yield_next, apc, cmd, slots, own, bounds>>

RegisterWake(l) ==
    /\ opc[l] = "bound"
    /\ Wake
    /\ GoTo(l, "idle")
    /\ UNCHANGED <<alive, reserved, incoming, actors, installed, reactorVars,
                   laneVars, slots, own, target, bounds>>

-----------------------------------------------------------------------------
(* Dropping an inbox: close_and_discard, on whichever thread drops the actor *)

\* The threads that are discarding the mailbox of l.
Drainers(l) ==
    (IF dpc = "discard" /\ closing.lane = l THEN {"reactor"} ELSE {})
    \union {k \in Lanes : \/ opc[k] = "discard" /\ k = l
                          \/ opc[k] = "discard_inbox" /\ target[k] = l}

\* One turn of `while try_pop().is_some()`: it ends at an empty or unpublished
\* head, or when another drainer won the pop.
DiscardTurn(l, again, done) ==
    \/ /\ HeadReady(mail[l])
       /\ mail' = [mail EXCEPT ![l] = Tail(@)]
       /\ slots' = InSlot(l, Head(mail[l]).cmd, DropCommand)
       /\ again
    \/ /\ ~HeadReady(mail[l]) \/ Cardinality(Drainers(l)) > 1
       /\ done
       /\ UNCHANGED <<mail, slots>>

DropInbox(l) ==
    /\ opc[l] = "drop_inbox"
    /\ inbox' = [inbox EXCEPT ![target[l]] = FALSE]
    /\ GoTo(l, "discard_inbox")
    /\ UNCHANGED <<rootVars, reactorVars, mail, senders, yield_next, apc, cmd,
                   slots, own, target, bounds>>

DiscardInbox(l) ==
    /\ opc[l] = "discard_inbox"
    /\ DiscardTurn(target[l], UNCHANGED <<opc, target>>,
                   GoTo(l, "drain") /\ target' = [target EXCEPT ![l] = None])
    /\ UNCHANGED <<rootVars, reactorVars, inbox, senders, yield_next, apc, cmd,
                   own, bounds>>

-----------------------------------------------------------------------------
(* Requests, on the owner's thread *)

\* submit_fire / cancel_fire: the first reusable slot; with none the request is
\* rejected and nothing changes.
Fire(l) ==
    /\ opc[l] = "idle" /\ requests < MaxRequests
    /\ \E s \in Pool :
         /\ Reusable(slots[l][s])
         /\ \A earlier \in 1..(s - 1) : ~Reusable(slots[l][earlier])
         /\ slots' = [slots EXCEPT ![l][s] = Renew(@, requests + 1)]
         /\ own' = [own EXCEPT ![l] = [req |-> requests + 1, slot |-> s]]
    /\ requests' = requests + 1
    /\ GoTo(l, "prep")
    /\ UNCHANGED <<rootVars, reactorVars, laneVars, target, resident, events>>

\* A pre-flight reject drops the whole completion: Sender, Receiver, metadata.
PrepFails(l) ==
    /\ opc[l] = "prep"
    /\ Disturb
    /\ slots' = [slots EXCEPT ![l][own[l].slot] =
                   DropReceiver(DropCommand(@, own[l].req), own[l].req)]
    /\ own' = [own EXCEPT ![l] = NoCommand]
    /\ GoTo(l, "idle")
    /\ UNCHANGED <<rootVars, reactorVars, laneVars, target, resident, requests>>

\* Command::reject: the request was refused before the mailbox took it.
Reject(l) ==
    /\ slots' = InSlot(l, own[l], RejectCommand)
    /\ own' = [own EXCEPT ![l] = NoCommand]
    /\ GoTo(l, "idle")

\* Sender::try_send of root_owner: the root's alive flag and the mailbox's
\* receiver_alive (what falls between the two loads may as well follow them) ...
SendCheck(l) ==
    /\ opc[l] = "prep"
    /\ IF alive /\ inbox[l] THEN GoTo(l, "enqueue") /\ UNCHANGED <<slots, own>>
                            ELSE Reject(l)
    /\ UNCHANGED <<rootVars, reactorVars, laneVars, target, bounds>>

\* ... a slot of the mailbox, or Full ...
SendReserve(l) ==
    /\ opc[l] = "enqueue"
    /\ IF Len(mail[l]) < Mailbox
       THEN /\ mail' = [mail EXCEPT ![l] = Append(@, [cmd |-> own[l], ready |-> FALSE])]
            /\ GoTo(l, "publish_command")
            /\ UNCHANGED <<slots, own>>
       ELSE Reject(l) /\ UNCHANGED mail
    /\ UNCHANGED <<rootVars, reactorVars, inbox, senders, yield_next, apc, cmd,
                   target, bounds>>

SendPublish(l) ==
    /\ opc[l] = "publish_command"
    /\ mail' = [mail EXCEPT ![l][Len(mail[l])].ready = TRUE]
    /\ GoTo(l, "recheck_inbox")
    /\ UNCHANGED <<rootVars, reactorVars, inbox, senders, yield_next, apc, cmd,
                   slots, own, target, bounds>>

\* ... discard_if_disconnected ...
SendRecheck(l) ==
    /\ opc[l] = "recheck_inbox"
    /\ GoTo(l, IF inbox[l] THEN "wake" ELSE "discard")
    /\ UNCHANGED <<rootVars, reactorVars, laneVars, slots, own, target, bounds>>

SendDiscard(l) ==
    /\ opc[l] = "discard"
    /\ DiscardTurn(l, UNCHANGED opc, GoTo(l, "wake"))
    /\ UNCHANGED <<rootVars, reactorVars, inbox, senders, yield_next, apc, cmd,
                   own, target, bounds>>

\* ... and the root's waker.
SendWake(l) ==
    /\ opc[l] = "wake"
    /\ Wake
    /\ own' = [own EXCEPT ![l] = NoCommand]
    /\ GoTo(l, "idle")
    /\ UNCHANGED <<alive, reserved, incoming, actors, installed, reactorVars,
                   laneVars, slots, target, bounds>>

\* Drop for Sender: publish the closure, then wake the root.
DropLane(l) ==
    /\ opc[l] = "idle"
    /\ Disturb
    /\ senders' = [senders EXCEPT ![l] = FALSE]
    /\ GoTo(l, "drop_wake")
    /\ UNCHANGED <<rootVars, reactorVars, mail, inbox, yield_next, apc, cmd,
                   slots, own, target, resident, requests>>

DropLaneWake(l) ==
    /\ opc[l] = "drop_wake"
    /\ Wake
    /\ GoTo(l, "gone")
    /\ UNCHANGED <<alive, reserved, incoming, actors, installed, reactorVars,
                   laneVars, slots, own, target, bounds>>

-----------------------------------------------------------------------------
(* Completions *)

\* A receiver that submit_fire or cancel_fire has returned.
Returned(l, s, r) == own[l] # [req |-> r, slot |-> s]

\* The completion handler takes the reply and drops the Receiver ...
AcceptReply(slot, req) == [slot EXCEPT !.channel = <<>>, !.rx = @ \ {req}]

TakeReply(l) ==
    /\ \E s \in Pool : \E r \in slots[l][s].rx :
         /\ Returned(l, s, r)
         /\ slots[l][s].channel # <<>>
         /\ slots' = [slots EXCEPT ![l][s] = AcceptReply(@, r)]
    /\ UNCHANGED <<rootVars, reactorVars, laneVars, ownerVars, bounds>>

\* ... then reads the timing and drops the metadata.
DropReader(slot, req) == [slot EXCEPT !.readers = @ \ {req}]

ReadTiming(l) ==
    /\ \E s \in Pool : \E r \in slots[l][s].readers \ slots[l][s].rx :
         slots' = [slots EXCEPT ![l][s] = DropReader(@, r)]
    /\ UNCHANGED <<rootVars, reactorVars, laneVars, ownerVars, bounds>>

\* A pending submit or cancel is dropped with its reply outstanding.
Abandon(l) ==
    /\ Disturb
    /\ \E s \in Pool : \E r \in slots[l][s].rx :
         /\ Returned(l, s, r)
         /\ slots' = [slots EXCEPT ![l][s] = DropReceiver(@, r)]
    /\ UNCHANGED <<rootVars, reactorVars, laneVars, ownerVars, resident, requests>>

-----------------------------------------------------------------------------
(* The reactor: Driver::poll *)

\* The first poll does not keep the root's waker.
PollBegin_NoWaker ==
    /\ dpc = "unpolled" \/ (dpc = "idle" /\ woken)
    /\ woken' = FALSE
    /\ dpc' = "incoming"
    /\ UNCHANGED <<alive, reserved, incoming, actors, installed, index, closing, served,
                   laneVars, slots, ownerVars, bounds>>

\* block_on polls its future once, then after every wake.
PollBegin ==
    /\ dpc = "unpolled" \/ (dpc = "idle" /\ woken)
    /\ woken' = FALSE
    /\ installed' = TRUE
    /\ dpc' = "incoming"
    /\ UNCHANGED <<alive, reserved, incoming, actors, index, closing, served, laneVars,
                   slots, ownerVars, bounds>>

PollIncoming ==
    /\ dpc = "incoming"
    /\ IF HeadReady(incoming)
       THEN /\ actors' = Append(actors, Head(incoming).lane)
            /\ incoming' = Tail(incoming)
            /\ UNCHANGED dpc
       ELSE /\ dpc' = "actors"
            /\ UNCHANGED <<actors, incoming>>
    /\ UNCHANGED <<alive, reserved, installed, woken, index, closing, served,
                   laneVars, slots, ownerVars, bounds>>

\* The loop over the actors ends, and the root is Pending.
PollEnd ==
    /\ dpc = "actors" /\ index > Len(actors)
    /\ dpc' = "idle" /\ index' = 1 /\ served' = {}
    /\ UNCHANGED <<rootVars, closing, laneVars, slots, ownerVars, bounds>>

Closing(l, then) == closing' = [lane |-> l, then |-> then]

Polled(l) == dpc = "actors" /\ index <= Len(actors) /\ actors[index] = l

\* Inbox::recv after a command: one turn for the others.
RecvYield(l) ==
    /\ Polled(l) /\ apc[l] = "recv" /\ yield_next[l]
    /\ yield_next' = [yield_next EXCEPT ![l] = FALSE]
    /\ woken' = TRUE
    /\ index' = index + 1
    /\ UNCHANGED <<alive, reserved, incoming, actors, installed, dpc, closing,
                   served, mail, inbox, senders, apc, cmd, slots,
                   ownerVars, bounds>>

\* The next command is taken at once, with no turn for the others.
RecvCommand_Greedy(l) ==
    /\ Polled(l) /\ apc[l] = "recv" /\ ~yield_next[l] /\ HeadReady(mail[l])
    /\ cmd' = [cmd EXCEPT ![l] = Head(mail[l]).cmd]
    /\ mail' = [mail EXCEPT ![l] = Tail(@)]
    /\ apc' = [apc EXCEPT ![l] = "network"]
    /\ index' = index + 1
    /\ UNCHANGED <<rootVars, dpc, closing, served, inbox, senders, yield_next,
                   slots, ownerVars, bounds>>

\* Inbox::recv takes a command and Command::run goes as far as the network.
RecvCommand(l) ==
    /\ Polled(l) /\ apc[l] = "recv" /\ ~yield_next[l] /\ HeadReady(mail[l])
    /\ cmd' = [cmd EXCEPT ![l] = Head(mail[l]).cmd]
    /\ mail' = [mail EXCEPT ![l] = Tail(@)]
    /\ yield_next' = [yield_next EXCEPT ![l] = TRUE]
    /\ apc' = [apc EXCEPT ![l] = "network"]
    /\ index' = index + 1
    /\ UNCHANGED <<rootVars, dpc, closing, served, inbox, senders, slots,
                   ownerVars, bounds>>

\* Inbox::recv with nothing to take: Pending, or the end of the actor.
RecvEmpty(l) ==
    /\ Polled(l) /\ apc[l] = "recv" /\ ~yield_next[l] /\ ~HeadReady(mail[l])
    /\ IF senders[l] THEN index' = index + 1 /\ UNCHANGED <<dpc, closing>>
                     ELSE dpc' = "close" /\ Closing(l, "retire") /\ UNCHANGED index
    /\ UNCHANGED <<rootVars, served, laneVars, slots, ownerVars, bounds>>

\* The request is still with the network.
RunPending(l) ==
    /\ Polled(l) /\ apc[l] = "network"
    /\ index' = index + 1
    /\ UNCHANGED <<rootVars, dpc, closing, served, laneVars, slots, ownerVars, bounds>>

\* The network (or the request's timeout) answers, and wakes the root.
NetworkAnswers(l) ==
    /\ apc[l] = "network"
    /\ apc' = [apc EXCEPT ![l] = "answered"]
    /\ Wake
    /\ UNCHANGED <<alive, reserved, incoming, actors, installed, reactorVars, mail,
                   inbox, senders, yield_next, cmd, slots, ownerVars, bounds>>

\* Command::run after the network: stamp and reply, stamp and drop the metadata.
Answer(slot, req) == Reply(slot, req, "answer")
DropWriter(slot, req) == [slot EXCEPT !.writers = @ \ {req}]

RunReply(l) ==
    /\ Polled(l) /\ apc[l] = "answered"
    /\ slots' = InSlot(l, cmd[l], Answer)
    /\ apc' = [apc EXCEPT ![l] = "replied"]
    /\ UNCHANGED <<rootVars, reactorVars, mail, inbox, senders, yield_next, cmd,
                   ownerVars, bounds>>

RunEnd(l) ==
    /\ Polled(l) /\ apc[l] = "replied"
    /\ slots' = InSlot(l, cmd[l], DropWriter)
    /\ cmd' = [cmd EXCEPT ![l] = NoCommand]
    /\ apc' = [apc EXCEPT ![l] = "recv"]
    /\ served' = served \union {l}
    /\ UNCHANGED <<rootVars, dpc, index, closing, mail, inbox, senders, yield_next,
                   ownerVars, bounds>>

\* What a running actor holds goes away: its command first, then its inbox.
DropRunning(l) ==
    /\ slots' = IF cmd[l] = NoCommand THEN slots ELSE InSlot(l, cmd[l], DropCommand)
    /\ cmd' = [cmd EXCEPT ![l] = NoCommand]
    /\ apc' = [apc EXCEPT ![l] = "recv"]
    /\ yield_next' = [yield_next EXCEPT ![l] = FALSE]

\* catch_unwind: the panic of one actor retires that actor.
Panic(l) ==
    /\ Polled(l) /\ apc[l] \in {"network", "answered"}
    /\ Disturb
    /\ DropRunning(l)
    /\ Closing(l, "retire")
    /\ dpc' = "close"
    /\ UNCHANGED <<rootVars, index, served, mail, inbox, senders,
                   ownerVars, resident, requests>>

CloseInbox ==
    /\ dpc = "close"
    /\ inbox' = [inbox EXCEPT ![closing.lane] = FALSE]
    /\ dpc' = "discard"
    /\ UNCHANGED <<rootVars, index, closing, served, mail, senders, yield_next, apc,
                   cmd, slots, ownerVars, bounds>>

\* After the discard: retire the polled actor, or go on dropping the Driver.
Discard ==
    /\ dpc = "discard"
    /\ DiscardTurn(closing.lane, UNCHANGED <<dpc, closing>>,
                   dpc' = closing.then /\ closing' = NoInbox)
    /\ UNCHANGED <<rootVars, index, served, inbox, senders, yield_next, apc, cmd,
                   ownerVars, bounds>>

SwapRemove(seq, i) ==
    [k \in 1..(Len(seq) - 1) |-> IF k = i THEN seq[Len(seq)] ELSE seq[k]]

\* swap_remove, then the reservation is given back.
Retire ==
    /\ dpc = "retire"
    /\ actors' = SwapRemove(actors, index)
    /\ reserved' = reserved - 1
    /\ dpc' = "actors"
    /\ UNCHANGED <<alive, incoming, installed, woken, index, closing, served,
                   laneVars, slots, ownerVars, bounds>>

-----------------------------------------------------------------------------
(* The reactor: Drop for Driver *)

\* The runtime ends, or could not be built.
DriverDrop ==
    /\ dpc \in {"unpolled", "idle"}
    /\ alive' = FALSE
    /\ dpc' = "drop_incoming"
    /\ UNCHANGED <<reserved, incoming, actors, installed, woken, index, closing,
                   served, laneVars, slots, ownerVars, bounds>>

\* Queued actors first; then the fields of the Driver.
DropIncoming ==
    /\ dpc = "drop_incoming"
    /\ \/ /\ HeadReady(incoming)
          /\ incoming' = Tail(incoming)
          /\ Closing(Head(incoming).lane, "drop_incoming")
          /\ dpc' = "close"
       \/ /\ ~HeadReady(incoming) \/ \E l \in Lanes : opc[l] = "drain"
          /\ dpc' = "drop_actors"
          /\ UNCHANGED <<incoming, closing>>
    /\ UNCHANGED <<alive, reserved, actors, installed, woken, index, served, laneVars,
                   slots, ownerVars, bounds>>

DropActors ==
    /\ dpc = "drop_actors"
    /\ IF actors = <<>>
       THEN /\ dpc' = "dead"
            /\ UNCHANGED <<actors, closing, slots, cmd, apc, yield_next>>
       ELSE /\ actors' = Tail(actors)
            /\ DropRunning(Head(actors))
            /\ Closing(Head(actors), "drop_actors")
            /\ dpc' = "close"
    /\ UNCHANGED <<alive, reserved, incoming, installed, woken, index, served,
                   mail, inbox, senders, ownerVars, bounds>>

-----------------------------------------------------------------------------
Register(l) ==
    \/ RegisterReserve(l) \/ RegisterPush(l)
    \/ RegisterUnreserve(l) \/ RegisterPublish(l) \/ RegisterRecheck(l)
    \/ RegisterDrain(l) \/ RegisterWake(l) \/ DropInbox(l) \/ DiscardInbox(l)

Send(l) ==
    \/ SendCheck(l) \/ SendReserve(l) \/ SendPublish(l)
    \/ SendRecheck(l) \/ SendDiscard(l) \/ SendWake(l) \/ DropLaneWake(l)

Complete(l) == TakeReply(l) \/ ReadTiming(l)

PollActor(l) ==
    \/ RecvYield(l) \/ RecvCommand(l) \/ RecvEmpty(l)
    \/ RunPending(l) \/ RunReply(l) \/ RunEnd(l)

Reactor ==
    \/ PollBegin \/ PollIncoming \/ PollEnd \/ CloseInbox \/ Discard \/ Retire
    \/ DropIncoming \/ DropActors
    \/ \E l \in Lanes : PollActor(l)

Next ==
    \/ Reactor \/ DriverDrop
    \/ \E l \in Lanes :
         \/ Register(l) \/ Send(l) \/ Complete(l) \/ NetworkAnswers(l)
         \/ Fire(l) \/ PrepFails(l) \/ DropLane(l) \/ Panic(l)
         \/ Abandon(l)

Spec == Init /\ [][Next]_vars

\* Steps that are taken once they can be: the threads run, the network answers
\* or its request times out, and completions are awaited.  No owner has to
\* fire, no root has to end and no actor has to panic.
Progress ==
    \/ Reactor
    \/ \E l \in Lanes : Register(l) \/ Send(l) \/ Complete(l) \/ NetworkAnswers(l)

FairSpec == Spec /\ WF_vars(Progress)

-----------------------------------------------------------------------------
\* A receiver only ever finds the reply to its own request: a slot is not
\* reused while an endpoint of an earlier request could still publish into it,
\* and what an abandoned receiver left is drained (Pool::checkout).
OwnReply ==
    \A l \in Lanes, s \in Pool, r \in Requests :
      r \in slots[l][s].rx =>
        \A i \in DOMAIN slots[l][s].channel : slots[l][s].channel[i].req = r

\* No reply is lost: a receiver whose sender is gone has its reply in the
\* channel, whether the command was run, rejected, discarded with a closed
\* mailbox or dropped by a panic (Sender::try_send and Drop for Sender).
Answerable ==
    \A l \in Lanes, s \in Pool, r \in Requests :
      r \in slots[l][s].rx => r \in slots[l][s].tx \/ slots[l][s].channel # <<>>

\* The timing of a slot is not reset under a reader or a writer of an earlier
\* request: Command::run stamps it after the reply was taken, and the handler
\* reads it after its endpoint is gone.
TimingStable ==
    \A l \in Lanes, s \in Pool :
      \A r \in slots[l][s].writers \union slots[l][s].readers : r = slots[l][s].timing

\* Actor capacity is neither exceeded nor leaked while the root lives: the
\* reservations are the registrations under way, the actors queued and the
\* actors held (the assertion of Driver::poll relies on it).
CapacityExact ==
    /\ reserved <= Capacity
    /\ alive => reserved = resident + Cardinality({l \in Lanes : opc[l] \in {"push", "unreserve"}})
                             + Len(incoming) + Len(actors)

\* Nothing stays behind a stopped root or a retired actor: once its threads
\* are done with it, a closed mailbox and the queue of a dropped Driver are
\* empty (register's second look at alive, discard_if_disconnected).
NoneStranded ==
    /\ (dpc = "dead" /\ \A l \in Lanes :
          opc[l] \notin {"push", "publish", "recheck", "drain",
                         "drop_inbox", "discard_inbox"})
         => incoming = <<>>
    /\ \A l \in Lanes :
         (~inbox[l] /\ Drainers(l) = {} /\ opc[l] \notin {"publish_command", "recheck_inbox"})
           => mail[l] = <<>>

\* A request that an actor has begun is never answered NotSent: the caller
\* would release an order that may rest at the venue (Command::reject).
NotSentNeverRan ==
    [][\A l \in Lanes, s \in Pool :
         slots'[l][s].channel = <<[req |-> cmd[l].req, kind |-> "not_sent"]>> =>
           slots'[l][s].channel = slots[l][s].channel]_vars

\* An actor completes at most one command per poll of the root and begins no
\* other in that poll, so a burst on one lane cannot starve the others.
OnePerPoll ==
    [][\A l \in Lanes : cmd'[l] # cmd[l] /\ cmd'[l] # NoCommand => l \notin served]_vars

\* Every request is eventually answered: no interleaving of registration,
\* send, panic and shutdown leaves a receiver waiting for good.
AllAnswered == []<>(\A l \in Lanes, s \in Pool : slots[l][s].rx = {})
=============================================================================
