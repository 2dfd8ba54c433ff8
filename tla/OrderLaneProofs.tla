-------------------------- MODULE OrderLaneProofs ---------------------------
(***************************************************************************)
(* Safety of the order lanes for any number of lanes, any capacities and   *)
(* any number of requests.                                                 *)
(*   Slots and commands: where the Sender of a request is (in the owner's  *)
(* hand, in the mailbox or with the running actor, in one place only), and *)
(* that all handles of a slot belong to its current request.               *)
(*   Root: what the phases of the reactor say of the root, the actors that *)
(* are registered, and who still has to look at a queue that was closed.   *)
(***************************************************************************)
EXTENDS OrderLane, TLAPS

\* Leaves are first order unless they cite SMTT (arithmetic, sequences) or PTL.
USE ZenonT(40)

Kinds == {"answer", "dropped", "not_sent"}
Channels == {<<>>} \union {<<a>> : a \in [req : Requests, kind : Kinds]}
SlotType == [tx : SUBSET Requests, rx : SUBSET Requests,
             writers : SUBSET Requests, readers : SUBSET Requests,
             channel : Channels, timing : 0..MaxRequests]
Queued == [lane : Lanes, ready : BOOLEAN]
Commands == [req : 0..MaxRequests, slot : 0..PoolSize]
Entries == [cmd : Commands, ready : BOOLEAN]
OwnerSteps == {"new", "push", "unreserve", "publish", "recheck", "drain", "drop_inbox",
               "discard_inbox", "bound", "refused", "idle", "prep", "enqueue",
               "publish_command", "recheck_inbox", "discard", "wake", "drop_wake", "gone"}
ActorSteps == {"recv", "network", "answered", "replied"}

\* What a slot promises: its handles are those of one request, its channel is
\* empty while the Sender lives, and holds that request's reply afterwards.
SlotOK(slot) ==
    /\ \A r \in slot.tx \union slot.rx \union slot.writers \union slot.readers :
         r = slot.timing
    /\ slot.tx # {} => slot.channel = <<>>
    /\ \A r \in slot.rx : r \in slot.tx \/ slot.channel # <<>>
    /\ slot.rx # {} => \A i \in DOMAIN slot.channel : slot.channel[i].req = slot.timing

\* Command c of lane l holds the Sender of its slot.
Held(l, c) == c.slot \in Pool /\ c.req \in slots[l][c.slot].tx

InHand(l) == opc[l] \in {"prep", "enqueue"}
Running(l) == apc[l] \in {"network", "answered"}

\* Every command holds its Sender, and no two commands share a slot.
HeldOK(l) ==
    /\ InHand(l) => Held(l, own[l])
    /\ \A i \in DOMAIN mail[l] : Held(l, mail[l][i].cmd)
    /\ Running(l) => Held(l, cmd[l])
    /\ InHand(l) => \A i \in DOMAIN mail[l] : mail[l][i].cmd.slot # own[l].slot
    /\ InHand(l) /\ Running(l) => cmd[l].slot # own[l].slot
    /\ Running(l) => \A i \in DOMAIN mail[l] : mail[l][i].cmd.slot # cmd[l].slot
    /\ \A i, j \in DOMAIN mail[l] : i # j => mail[l][i].cmd.slot # mail[l][j].cmd.slot

\* An actor that has replied is the one being polled, and holds a slot.
ActorOK(l) ==
    /\ apc[l] = "recv" => cmd[l] = NoCommand
    /\ apc[l] # "recv" => cmd[l].slot \in Pool /\ cmd[l].req \in Requests
    /\ apc[l] = "replied" => Polled(l)

Typed ==
    /\ slots \in [Lanes -> [Pool -> SlotType]]
    /\ mail \in [Lanes -> Seq(Entries)]
    /\ own \in [Lanes -> Commands] /\ cmd \in [Lanes -> Commands]
    /\ opc \in [Lanes -> OwnerSteps] /\ apc \in [Lanes -> ActorSteps]
    /\ requests \in 0..MaxRequests
    /\ incoming \in Seq(Queued)
    /\ actors \in Seq(Lanes) /\ index \in Nat

Inv ==
    /\ Typed
    /\ \A l \in Lanes, s \in Pool : SlotOK(slots[l][s])
    /\ \A l \in Lanes : HeldOK(l) /\ ActorOK(l)

\* Sender::try_send, field by field.
LEMMA ReplyFields ==
    ASSUME NEW slot \in SlotType, slot.channel = <<>>, NEW r, NEW kind
    PROVE  Reply(slot, r, kind) =
             [tx |-> slot.tx \ {r}, rx |-> slot.rx, writers |-> slot.writers,
              readers |-> slot.readers, channel |-> <<[req |-> r, kind |-> kind]>>,
              timing |-> slot.timing]
<1> DEFINE sent == [tx |-> slot.tx, rx |-> slot.rx, writers |-> slot.writers,
                    readers |-> slot.readers, channel |-> <<[req |-> r, kind |-> kind]>>,
                    timing |-> slot.timing]
<1>1. Deliver(slot, r, kind) = sent
  BY DEF Deliver, SlotType
<1>2. Reply(slot, r, kind) = [sent EXCEPT !.tx = @ \ {r}]
  BY <1>1 DEF Reply
<1> QED
  BY <1>2

\* Command c of a slot answers or is dropped: the reply goes into the channel.
LEMMA AnswerKeepsSlot ==
    ASSUME NEW slot \in SlotType, SlotOK(slot), NEW r \in slot.tx,
           NEW w \in SUBSET slot.writers, NEW kind \in Kinds
    PROVE  /\ [Reply(slot, r, kind) EXCEPT !.writers = w] \in SlotType
           /\ SlotOK([Reply(slot, r, kind) EXCEPT !.writers = w])
<1> DEFINE new == [tx |-> {}, rx |-> slot.rx, writers |-> w, readers |-> slot.readers,
                   channel |-> <<[req |-> r, kind |-> kind]>>, timing |-> slot.timing]
<1>1. slot.channel = <<>> /\ slot.timing = r /\ r \in Requests /\ slot.tx = {r}
  BY DEF SlotOK, SlotType
<1>2. [Reply(slot, r, kind) EXCEPT !.writers = w] = new
  <2>1. Reply(slot, r, kind) =
          [tx |-> slot.tx \ {r}, rx |-> slot.rx, writers |-> slot.writers,
           readers |-> slot.readers, channel |-> <<[req |-> r, kind |-> kind]>>,
           timing |-> slot.timing]
    BY <1>1, ReplyFields
  <2>2. slot.tx \ {r} = {}
    BY <1>1
  <2> QED
    BY <2>1, <2>2, SMTT(40)
<1>3. new \in SlotType
  <2>1. [req |-> r, kind |-> kind] \in [req : Requests, kind : Kinds]
    BY <1>1
  <2>2. new.channel \in Channels
    BY <2>1 DEF Channels
  <2> QED
    BY <2>2 DEF SlotType
<1>4. SlotOK(new)
  <2>1. new.channel # <<>> /\ \A i \in DOMAIN new.channel : new.channel[i].req = new.timing
    BY <1>1, SMTT(40)
  <2>2. \A q \in new.tx \union new.rx \union new.writers \union new.readers : q = new.timing
    BY DEF SlotOK, SlotType
  <2> QED
    BY <2>1, <2>2 DEF SlotOK
<1> QED
  BY <1>2, <1>3, <1>4

\* Answering, rejecting or dropping a command leaves its request a reply.
LEMMA RepliesKeepSlot ==
    ASSUME NEW slot \in SlotType, SlotOK(slot), NEW r \in slot.tx
    PROVE  /\ Answer(slot, r) \in SlotType /\ SlotOK(Answer(slot, r))
           /\ DropCommand(slot, r) \in SlotType /\ SlotOK(DropCommand(slot, r))
           /\ RejectCommand(slot, r) \in SlotType /\ SlotOK(RejectCommand(slot, r))
<1> DEFINE answered(kind) ==
      [tx |-> slot.tx \ {r}, rx |-> slot.rx, writers |-> slot.writers,
       readers |-> slot.readers, channel |-> <<[req |-> r, kind |-> kind]>>,
       timing |-> slot.timing]
<1>1. slot.channel = <<>>
  BY DEF SlotOK
<1>2. \A kind \in Kinds : Reply(slot, r, kind) = answered(kind)
  BY <1>1, ReplyFields
<1>3. \A kind \in Kinds :
        /\ Reply(slot, r, kind) = [Reply(slot, r, kind) EXCEPT !.writers = slot.writers]
        /\ [Reply(slot, r, kind) EXCEPT !.writers = @ \ {r}]
             = [Reply(slot, r, kind) EXCEPT !.writers = slot.writers \ {r}]
  <2>1. \A kind \in Kinds :
          /\ answered(kind) = [answered(kind) EXCEPT !.writers = slot.writers]
          /\ [answered(kind) EXCEPT !.writers = @ \ {r}]
               = [answered(kind) EXCEPT !.writers = slot.writers \ {r}]
    BY SMTT(40)
  <2> QED
    BY <1>2, <2>1
<1>4. slot.writers \in SUBSET slot.writers /\ slot.writers \ {r} \in SUBSET slot.writers
  OBVIOUS
<1>5. ASSUME NEW kind \in Kinds
      PROVE  /\ Reply(slot, r, kind) \in SlotType /\ SlotOK(Reply(slot, r, kind))
             /\ [Reply(slot, r, kind) EXCEPT !.writers = @ \ {r}] \in SlotType
             /\ SlotOK([Reply(slot, r, kind) EXCEPT !.writers = @ \ {r}])
  <2>1. \A w \in SUBSET slot.writers :
          /\ [Reply(slot, r, kind) EXCEPT !.writers = w] \in SlotType
          /\ SlotOK([Reply(slot, r, kind) EXCEPT !.writers = w])
    BY AnswerKeepsSlot
  <2>2. /\ [Reply(slot, r, kind) EXCEPT !.writers = slot.writers] \in SlotType
        /\ SlotOK([Reply(slot, r, kind) EXCEPT !.writers = slot.writers])
        /\ [Reply(slot, r, kind) EXCEPT !.writers = slot.writers \ {r}] \in SlotType
        /\ SlotOK([Reply(slot, r, kind) EXCEPT !.writers = slot.writers \ {r}])
    BY <1>4, <2>1
  <2> QED
    BY <1>3, <2>2
<1>6. "answer" \in Kinds /\ "dropped" \in Kinds /\ "not_sent" \in Kinds
  BY DEF Kinds
<1> QED
  BY <1>5, <1>6 DEF Answer, DropCommand, RejectCommand

\* checkout of a reusable slot makes all its handles those of the new request.
LEMMA RenewKeepsSlot ==
    ASSUME NEW slot \in SlotType, Reusable(slot), NEW r \in Requests
    PROVE  Renew(slot, r) \in SlotType /\ SlotOK(Renew(slot, r)) /\ r \in Renew(slot, r).tx
<1>1. Renew(slot, r) = [tx |-> {r}, rx |-> {r}, writers |-> {r}, readers |-> {r},
                        channel |-> <<>>, timing |-> r]
  BY DEF Renew, Reusable
<1>2. r \in 0..MaxRequests
  BY LaneAssumption, SMTT(40) DEF Requests
<1> QED
  BY <1>1, <1>2, SMTT(40) DEF SlotType, SlotOK, Channels

\* The receiving side, and the writer at its end, only let handles go.
LEMMA ReleaseKeepsSlot ==
    ASSUME NEW slot \in SlotType, SlotOK(slot), NEW r
    PROVE  /\ DropReceiver(slot, r) \in SlotType /\ SlotOK(DropReceiver(slot, r))
           /\ DropReader(slot, r) \in SlotType /\ SlotOK(DropReader(slot, r))
           /\ DropWriter(slot, r) \in SlotType /\ SlotOK(DropWriter(slot, r))
           /\ r \in slot.rx => AcceptReply(slot, r) \in SlotType /\ SlotOK(AcceptReply(slot, r))
           /\ DropReceiver(slot, r).tx = slot.tx /\ DropReader(slot, r).tx = slot.tx
           /\ DropWriter(slot, r).tx = slot.tx /\ AcceptReply(slot, r).tx = slot.tx
<1>1. DropReceiver(slot, r) \in SlotType /\ SlotOK(DropReceiver(slot, r))
  BY DEF DropReceiver, SlotType, SlotOK
<1>2. DropReader(slot, r) \in SlotType /\ SlotOK(DropReader(slot, r))
  BY DEF DropReader, SlotType, SlotOK
<1>3. DropWriter(slot, r) \in SlotType /\ SlotOK(DropWriter(slot, r))
  BY DEF DropWriter, SlotType, SlotOK
<1>4. ASSUME r \in slot.rx PROVE AcceptReply(slot, r) \in SlotType /\ SlotOK(AcceptReply(slot, r))
  <2>1. slot.rx \ {r} = {}
    BY <1>4 DEF SlotOK, SlotType
  <2> QED
    BY <1>4, <2>1 DEF AcceptReply, SlotType, SlotOK, Channels
<1> QED
  BY <1>1, <1>2, <1>3, <1>4 DEF DropReceiver, DropReader, DropWriter, AcceptReply, SlotType

\* Slot s of lane k becomes new: the slots keep their promise, and the others
\* are as they were.
Update(k, s, new) == slots' = [slots EXCEPT ![k][s] = new]
Updated(k, s, new) ==
    /\ slots' \in [Lanes -> [Pool -> SlotType]]
    /\ \A l \in Lanes, t \in Pool : SlotOK(slots'[l][t])
    /\ slots'[k][s] = new
    /\ \A l \in Lanes, t \in Pool : l # k \/ t # s => slots'[l][t] = slots[l][t]

\* A change of one slot leaves the promises of the others alone.
LEMMA SlotUpdate ==
    ASSUME Inv, NEW k \in Lanes, NEW s \in Pool, NEW new \in SlotType, SlotOK(new),
           Update(k, s, new)
    PROVE  Updated(k, s, new)
<1>0. slots' = [slots EXCEPT ![k][s] = new]
  BY DEF Update
<1>1. slots \in [Lanes -> [Pool -> SlotType]]
  BY DEF Inv, Typed
<1>2. /\ slots'[k][s] = new
      /\ \A l \in Lanes, t \in Pool : l # k \/ t # s => slots'[l][t] = slots[l][t]
  BY <1>0, <1>1
<1>3. slots' \in [Lanes -> [Pool -> SlotType]]
  BY <1>0, <1>1
<1>4. \A l \in Lanes, t \in Pool : SlotOK(slots'[l][t])
  <2> SUFFICES ASSUME NEW l \in Lanes, NEW t \in Pool PROVE SlotOK(slots'[l][t])
    OBVIOUS
  <2>1. CASE l = k /\ t = s
    BY <1>2, <2>1
  <2>2. CASE l # k \/ t # s
    <3>1. slots'[l][t] = slots[l][t]
      BY <1>2, <2>2
    <3>2. SlotOK(slots[l][t])
      BY DEF Inv
    <3> QED
      BY <3>1, <3>2
  <2> QED
    BY <2>1, <2>2
<1> QED
  BY <1>2, <1>3, <1>4 DEF Updated

\* The commands of a lane are among the commands it had, at most the mailbox
\* moved on by o, and slot s, the one that may have lost its Sender, is no
\* longer used.
Frame(l, s, o) ==
    /\ \A t \in Pool : t # s => slots[l][t].tx \subseteq slots'[l][t].tx
    /\ InHand(l)' => InHand(l) /\ own'[l] = own[l] /\ own[l].slot # s
    /\ Running(l)' => Running(l) /\ cmd'[l] = cmd[l] /\ cmd[l].slot # s
    /\ DOMAIN mail'[l] \subseteq Nat
    /\ \A i \in DOMAIN mail'[l] :
         /\ i + o \in DOMAIN mail[l]
         /\ mail'[l][i].cmd = mail[l][i + o].cmd
         /\ mail[l][i + o].cmd.slot # s

\* A lane keeps its hold on its Senders when another request's slot changes.
LEMMA HeldFrame ==
    ASSUME Typed, NEW l \in Lanes, HeldOK(l), NEW s, NEW o \in Nat, Frame(l, s, o)
    PROVE  HeldOK(l)'
<1>f. /\ \A t \in Pool : t # s => slots[l][t].tx \subseteq slots'[l][t].tx
      /\ InHand(l)' => InHand(l) /\ own'[l] = own[l] /\ own[l].slot # s
      /\ Running(l)' => Running(l) /\ cmd'[l] = cmd[l] /\ cmd[l].slot # s
      /\ DOMAIN mail'[l] \subseteq Nat
      /\ \A i \in DOMAIN mail'[l] :
           /\ i + o \in DOMAIN mail[l]
           /\ mail'[l][i].cmd = mail[l][i + o].cmd
           /\ mail[l][i + o].cmd.slot # s
  BY DEF Frame
<1>1. \A c : Held(l, c) /\ c.slot # s => c.slot \in Pool /\ c.req \in slots'[l][c.slot].tx
  BY <1>f DEF Held
<1>2. InHand(l)' => own'[l].slot \in Pool /\ own'[l].req \in slots'[l][own'[l].slot].tx
  BY <1>f, <1>1 DEF HeldOK
<1>3. Running(l)' => cmd'[l].slot \in Pool /\ cmd'[l].req \in slots'[l][cmd'[l].slot].tx
  BY <1>f, <1>1 DEF HeldOK
<1>4. \A i \in DOMAIN mail'[l] : /\ mail'[l][i].cmd.slot \in Pool
                                 /\ mail'[l][i].cmd.req \in slots'[l][mail'[l][i].cmd.slot].tx
  BY <1>f, <1>1 DEF HeldOK
<1>5. InHand(l)' => \A i \in DOMAIN mail'[l] : mail'[l][i].cmd.slot # own'[l].slot
  BY <1>f DEF HeldOK
<1>6. InHand(l)' /\ Running(l)' => cmd'[l].slot # own'[l].slot
  BY <1>f DEF HeldOK
<1>7. Running(l)' => \A i \in DOMAIN mail'[l] : mail'[l][i].cmd.slot # cmd'[l].slot
  BY <1>f DEF HeldOK
<1>8. \A i, j \in DOMAIN mail'[l] : i # j => mail'[l][i].cmd.slot # mail'[l][j].cmd.slot
  <2> SUFFICES ASSUME NEW i \in DOMAIN mail'[l], NEW j \in DOMAIN mail'[l], i # j
               PROVE  mail'[l][i].cmd.slot # mail'[l][j].cmd.slot
    OBVIOUS
  <2>1. i + o # j + o
    BY <1>f, SMTT(40)
  <2> QED
    BY <1>f, <2>1 DEF HeldOK
<1> QED
  BY <1>2, <1>3, <1>4, <1>5, <1>6, <1>7, <1>8 DEF HeldOK, Held

\* A lane of which nothing changes, or only a Receiver, a handle of the
\* metadata or the ready flag of a command.
LEMMA HeldSame ==
    ASSUME Typed, NEW l \in Lanes, HeldOK(l),
           \A t \in Pool : slots[l][t].tx \subseteq slots'[l][t].tx,
           InHand(l)' => InHand(l) /\ own'[l] = own[l],
           Running(l)' => Running(l) /\ cmd'[l] = cmd[l],
           mail'[l] = mail[l]
    PROVE  HeldOK(l)'
<1>1. 0 \notin Pool
  BY SMTT(40) DEF Pool
<1>2. DOMAIN mail'[l] \subseteq Nat
  BY SMTT(40) DEF Typed
<1>3. InHand(l)' => InHand(l) /\ own'[l] = own[l] /\ own[l].slot # 0
  BY <1>1 DEF HeldOK, Held
<1>4. Running(l)' => Running(l) /\ cmd'[l] = cmd[l] /\ cmd[l].slot # 0
  BY <1>1 DEF HeldOK, Held
<1>5. \A i \in DOMAIN mail'[l] : /\ i + 0 \in DOMAIN mail[l]
                                 /\ mail'[l][i].cmd = mail[l][i + 0].cmd
                                 /\ mail[l][i + 0].cmd.slot # 0
  BY <1>1, <1>2, SMTT(40) DEF HeldOK, Held
<1>6. 0 \in Nat /\ \A t \in Pool : t # 0 => slots[l][t].tx \subseteq slots'[l][t].tx
  OBVIOUS
<1>f. Frame(l, 0, 0)
  BY <1>2, <1>3, <1>4, <1>5, <1>6 DEF Frame
<1> QED
  BY <1>6, <1>f, HeldFrame

\* Steps that move no command and no reply.
LEMMA QuietStep ==
    ASSUME Inv, slots' = slots, mail' = mail, cmd' = cmd, apc' = apc, requests' = requests,
           own' \in [Lanes -> Commands], opc' \in [Lanes -> OwnerSteps],
           incoming' \in Seq(Queued),
           actors' \in Seq(Lanes), index' \in Nat,
           \A l \in Lanes : InHand(l)' => InHand(l) /\ own'[l] = own[l],
           \A l \in Lanes : apc[l] = "replied" => Polled(l)'
    PROVE  Inv'
<1>1. Typed'
  BY DEF Inv, Typed
<1>2. \A l \in Lanes, s \in Pool : SlotOK(slots'[l][s])
  BY DEF Inv
<1>3. ASSUME NEW l \in Lanes PROVE HeldOK(l)'
  <2>1. Running(l)' => Running(l) /\ cmd'[l] = cmd[l]
    BY DEF Running
  <2>2. \A t \in Pool : slots[l][t].tx \subseteq slots'[l][t].tx
    OBVIOUS
  <2> QED
    BY <2>1, <2>2, HeldSame DEF Inv
<1>4. ASSUME NEW l \in Lanes PROVE ActorOK(l)'
  BY DEF Inv, ActorOK
<1> QED
  BY <1>1, <1>2, <1>3, <1>4 DEF Inv

\* A step that concerns one lane preserves the invariant of the others.
LEMMA LaneStep ==
    ASSUME Inv, NEW k \in Lanes,
           slots' \in [Lanes -> [Pool -> SlotType]],
           \A l \in Lanes, s \in Pool : SlotOK(slots'[l][s]),
           mail' \in [Lanes -> Seq(Entries)],
           own' \in [Lanes -> Commands], cmd' \in [Lanes -> Commands],
           opc' \in [Lanes -> OwnerSteps], apc' \in [Lanes -> ActorSteps],
           requests' \in 0..MaxRequests, incoming' = incoming,
           actors' \in Seq(Lanes), index' \in Nat,
           \A l \in Lanes : l # k =>
             /\ \A t \in Pool : slots'[l][t] = slots[l][t]
             /\ own'[l] = own[l] /\ opc'[l] = opc[l] /\ mail'[l] = mail[l]
             /\ cmd'[l] = cmd[l] /\ apc'[l] = apc[l]
             /\ (apc[l] = "replied" => Polled(l)'),
           HeldOK(k)', ActorOK(k)'
    PROVE  Inv'
<1>1. Typed'
  BY DEF Inv, Typed
<1>2. ASSUME NEW l \in Lanes PROVE HeldOK(l)'
  <2>1. CASE l # k
    <3>1. InHand(l)' => InHand(l) /\ own'[l] = own[l]
      BY <2>1 DEF InHand
    <3>2. Running(l)' => Running(l) /\ cmd'[l] = cmd[l]
      BY <2>1 DEF Running
    <3>3. mail'[l] = mail[l] /\ \A t \in Pool : slots[l][t].tx \subseteq slots'[l][t].tx
      BY <2>1
    <3> QED
      BY <3>1, <3>2, <3>3, HeldSame DEF Inv
  <2> QED
    BY <2>1
<1>3. ASSUME NEW l \in Lanes PROVE ActorOK(l)'
  BY DEF Inv, ActorOK
<1> QED
  BY <1>1, <1>2, <1>3 DEF Inv

\* Head and tail of a queue that is not empty.
LEMMA QueueFacts ==
    ASSUME NEW S, NEW q \in Seq(S), q # <<>>
    PROVE  Head(q) \in S /\ Tail(q) \in Seq(S)
  BY SMTT(40)

\* While an actor that has replied is polled, no other step of the reactor is
\* possible.
LEMMA RepliedBlocks ==
    ASSUME Inv, NEW l \in Lanes, apc[l] = "replied"
    PROVE  dpc = "actors" /\ index <= Len(actors) /\ actors[index] = l
  BY DEF Inv, ActorOK, Polled

\* The polled actor is the only one that may have replied.
LEMMA OnlyPolledReplied ==
    ASSUME Inv, NEW l \in Lanes, Polled(l)
    PROVE  \A k \in Lanes : apc[k] = "replied" => k = l
  BY RepliedBlocks DEF Polled

-----------------------------------------------------------------------------
(* The steps of the owner's thread: registration, and a request from checkout to mailbox *)

\* The owner's steps that move no command and touch no slot: registration, the
\* drop of an inbox before its discard, the second look at the mailbox, wakes.
LEMMA OwnerQuiet ==
    ASSUME Inv, NEW l \in Lanes,
           \/ RegisterReserve(l) \/ RegisterPush(l) \/ RegisterUnreserve(l)
           \/ RegisterPublish(l) \/ RegisterRecheck(l) \/ RegisterDrain(l) \/ RegisterWake(l)
           \/ DropInbox(l) \/ SendRecheck(l) \/ SendWake(l) \/ DropLane(l) \/ DropLaneWake(l)
    PROVE  Inv'
<1>t. /\ own \in [Lanes -> Commands] /\ opc \in [Lanes -> OwnerSteps]
      /\ incoming \in Seq(Queued) /\ actors \in Seq(Lanes) /\ index \in Nat
  BY DEF Inv, Typed
<1>1. /\ slots' = slots /\ mail' = mail /\ cmd' = cmd /\ apc' = apc
      /\ requests' = requests /\ dpc' = dpc /\ index' = index /\ actors' = actors
  BY DEF RegisterReserve, RegisterPush, RegisterUnreserve, RegisterPublish,
         RegisterRecheck, RegisterDrain, RegisterWake, DropInbox, SendRecheck, SendWake,
         DropLane, DropLaneWake, rootVars, reactorVars, laneVars, bounds
<1>2. \E pc \in {"push", "refused", "publish", "unreserve", "recheck", "bound", "drain",
                 "drop_inbox", "idle", "discard_inbox", "wake", "discard", "drop_wake", "gone"} :
        opc' = [opc EXCEPT ![l] = pc]
  <2>1. CASE RegisterReserve(l) \/ RegisterPush(l) \/ RegisterUnreserve(l) \/ RegisterPublish(l)
    BY <2>1 DEF RegisterReserve, RegisterPush, RegisterUnreserve, RegisterPublish, GoTo
  <2>2. CASE RegisterRecheck(l)
    BY <2>2 DEF RegisterRecheck, GoTo
  <2>3. CASE RegisterDrain(l) \/ RegisterWake(l) \/ DropInbox(l)
    BY <2>3 DEF RegisterDrain, RegisterWake, DropInbox, GoTo
  <2>4. CASE SendRecheck(l)
    BY <2>4 DEF SendRecheck, GoTo
  <2>5. CASE SendWake(l) \/ DropLane(l) \/ DropLaneWake(l)
    BY <2>5 DEF SendWake, DropLane, DropLaneWake, GoTo
  <2> QED
    BY <2>1, <2>2, <2>3, <2>4, <2>5
<1>3. incoming' \in Seq(Queued)
  <2>1. CASE RegisterPush(l)
    <3>1. [lane |-> l, ready |-> FALSE] \in Queued
      BY DEF Queued
    <3> QED
      BY <1>t, <2>1, <3>1, SMTT(60) DEF RegisterPush
  <2>2. CASE RegisterPublish(l)
    <3>1. \A i \in DOMAIN incoming : incoming[i] \in Queued
      BY <1>t, SMTT(40)
    <3>2. \A i \in DOMAIN incoming : [incoming[i] EXCEPT !.ready = TRUE] \in Queued
      BY <3>1 DEF Queued
    <3>3. \A i \in DOMAIN incoming : incoming'[i] \in Queued
      BY <2>2, <3>1, <3>2 DEF RegisterPublish
    <3>4. DOMAIN incoming' = 1..Len(incoming) /\ Len(incoming) \in Nat
      BY <1>t, <2>2, SMTT(40) DEF RegisterPublish
    <3>5. incoming' = [i \in 1..Len(incoming) |-> incoming'[i]]
      BY <2>2, <3>4 DEF RegisterPublish
    <3> QED
      BY <1>t, <3>3, <3>4, <3>5, SMTT(40)
  <2>3. CASE RegisterDrain(l)
    <3>1. incoming' = incoming \/ (incoming # <<>> /\ incoming' = Tail(incoming))
      BY <2>3 DEF RegisterDrain, HeadReady
    <3>2. incoming # <<>> => Tail(incoming) \in Seq(Queued)
      BY <1>t, QueueFacts
    <3> QED
      BY <1>t, <3>1, <3>2
  <2>4. RegisterPush(l) \/ RegisterPublish(l) \/ RegisterDrain(l) \/ incoming' = incoming
    BY DEF RegisterReserve, RegisterUnreserve, RegisterRecheck, RegisterWake, DropInbox,
           SendRecheck, SendWake, DropLane, DropLaneWake, rootVars
  <2> QED
    BY <1>t, <2>1, <2>2, <2>3, <2>4
<1>4. own' = own \/ own' = [own EXCEPT ![l] = NoCommand]
  BY DEF RegisterReserve, RegisterPush, RegisterUnreserve, RegisterPublish,
         RegisterRecheck, RegisterDrain, RegisterWake, DropInbox, SendRecheck, SendWake,
         DropLane, DropLaneWake, ownerVars
<1>5. NoCommand \in Commands
  BY LaneAssumption, SMTT(40) DEF NoCommand, Commands, None
<1>6. own' \in [Lanes -> Commands] /\ opc' \in [Lanes -> OwnerSteps]
  <2>1. own' \in [Lanes -> Commands]
    BY <1>t, <1>4, <1>5
  <2>2. opc' \in [Lanes -> OwnerSteps]
    <3>1. PICK pc \in OwnerSteps : opc' = [opc EXCEPT ![l] = pc]
      BY <1>2 DEF OwnerSteps
    <3> QED
      BY <1>t, <3>1
  <2> QED
    BY <2>1, <2>2
<1>7. \A k \in Lanes : InHand(k)' => InHand(k) /\ own'[k] = own[k]
  BY <1>t, <1>2, <1>4 DEF InHand
<1>8. \A k \in Lanes : apc[k] = "replied" => Polled(k)'
  BY <1>1 DEF Inv, ActorOK, Polled
<1> QED
  BY <1>t, <1>1, <1>3, <1>6, <1>7, <1>8, QuietStep

\* checkout takes a slot without handles, so the new request has it to itself.
LEMMA FireInv ==
    ASSUME Inv, NEW l \in Lanes, Fire(l) PROVE Inv'
<1>t. /\ slots \in [Lanes -> [Pool -> SlotType]] /\ own \in [Lanes -> Commands]
      /\ mail \in [Lanes -> Seq(Entries)] /\ cmd \in [Lanes -> Commands]
      /\ opc \in [Lanes -> OwnerSteps] /\ apc \in [Lanes -> ActorSteps]
      /\ requests \in 0..MaxRequests /\ actors \in Seq(Lanes) /\ index \in Nat
  BY DEF Inv, Typed
<1>1. PICK s \in Pool :
        /\ Reusable(slots[l][s])
        /\ slots' = [slots EXCEPT ![l][s] = Renew(slots[l][s], requests + 1)]
        /\ own' = [own EXCEPT ![l] = [req |-> requests + 1, slot |-> s]]
  BY <1>t DEF Fire
<1>2. /\ mail' = mail /\ cmd' = cmd /\ apc' = apc /\ incoming' = incoming
      /\ actors' = actors /\ index' = index /\ dpc' = dpc
      /\ requests' = requests + 1 /\ opc' = [opc EXCEPT ![l] = "prep"] /\ requests < MaxRequests
  BY DEF Fire, GoTo, rootVars, reactorVars, laneVars
<1>3. requests + 1 \in Requests /\ requests + 1 \in 0..MaxRequests
  BY <1>t, <1>2, LaneAssumption, SMTT(40) DEF Requests
<1> DEFINE new == Renew(slots[l][s], requests + 1)
<1>4. new \in SlotType /\ SlotOK(new) /\ requests + 1 \in new.tx
  <2>1. slots[l][s] \in SlotType
    BY <1>t
  <2> QED
    BY <1>1, <1>3, <2>1, RenewKeepsSlot
<1>5. /\ slots' \in [Lanes -> [Pool -> SlotType]]
      /\ \A k \in Lanes, t \in Pool : SlotOK(slots'[k][t])
      /\ slots'[l][s] = new
      /\ \A k \in Lanes, t \in Pool : k # l \/ t # s => slots'[k][t] = slots[k][t]
  <2> HIDE DEF new
  <2>1. Update(l, s, new) /\ new \in SlotType /\ SlotOK(new)
    BY <1>1, <1>4 DEF new, Update
  <2>2. Updated(l, s, new)
    BY <2>1, SlotUpdate
  <2> QED
    BY <2>2 DEF Updated
<1>6. own'[l] = [req |-> requests + 1, slot |-> s] /\ own' \in [Lanes -> Commands]
  <2>1. [req |-> requests + 1, slot |-> s] \in Commands
    BY <1>3, SMTT(40) DEF Commands, Pool
  <2> QED
    BY <1>t, <1>1, <2>1
<1>7. \A c : Held(l, c) => c.slot # s /\ c.slot \in Pool /\ c.req \in slots'[l][c.slot].tx
  BY <1>1, <1>5 DEF Held, Reusable
<1>8. HeldOK(l)'
  <2>0. HeldOK(l)
    BY DEF Inv
  <2>1. (Running(l)' <=> Running(l)) /\ mail'[l] = mail[l] /\ cmd'[l] = cmd[l]
    BY <1>2 DEF Running
  <2>2. own'[l].slot = s /\ own'[l].slot \in Pool /\ own'[l].req \in slots'[l][own'[l].slot].tx
    BY <1>4, <1>5, <1>6, SMTT(40)
  <2>3. \A i \in DOMAIN mail[l] : /\ mail[l][i].cmd.slot # s /\ mail[l][i].cmd.slot \in Pool
                                  /\ mail[l][i].cmd.req \in slots'[l][mail[l][i].cmd.slot].tx
    BY <1>7, <2>0 DEF HeldOK
  <2>4. Running(l) => /\ cmd[l].slot # s /\ cmd[l].slot \in Pool
                      /\ cmd[l].req \in slots'[l][cmd[l].slot].tx
    BY <1>7, <2>0 DEF HeldOK
  <2> QED
    BY <2>0, <2>1, <2>2, <2>3, <2>4, SMTT(60) DEF HeldOK, Held
<1>9. ActorOK(l)' /\ \A k \in Lanes : apc[k] = "replied" => Polled(k)'
  BY <1>2 DEF Inv, ActorOK, Polled
<1>10. opc' \in [Lanes -> OwnerSteps]
  BY <1>t, <1>2 DEF OwnerSteps
<1>11. \A k \in Lanes : k # l =>
         /\ \A t \in Pool : slots'[k][t] = slots[k][t]
         /\ own'[k] = own[k] /\ opc'[k] = opc[k] /\ mail'[k] = mail[k]
         /\ cmd'[k] = cmd[k] /\ apc'[k] = apc[k]
         /\ (apc[k] = "replied" => Polled(k)')
  BY <1>1, <1>2, <1>5, <1>9, SMTT(40)
<1> QED
  BY <1>t, <1>2, <1>3, <1>5, <1>6, <1>8, <1>9, <1>10, <1>11, LaneStep

\* The command in the owner's hand is rejected or dropped.
EmptiesHand(l, s, new) == own[l].slot = s /\ Update(l, s, new)

\* A command leaves the owner's hand for good: its Sender goes with it.
LEMMA HandEmptied ==
    ASSUME Inv, NEW l \in Lanes, InHand(l), NEW new \in SlotType, SlotOK(new),
           NEW s \in Pool, EmptiesHand(l, s, new),
           own' = [own EXCEPT ![l] = NoCommand], opc' = [opc EXCEPT ![l] = "idle"],
           mail' = mail, cmd' = cmd, apc' = apc, incoming' = incoming,
           actors' = actors, index' = index, dpc' = dpc, requests' = requests
    PROVE  Inv'
<1>t. /\ own \in [Lanes -> Commands] /\ mail \in [Lanes -> Seq(Entries)]
      /\ cmd \in [Lanes -> Commands] /\ opc \in [Lanes -> OwnerSteps]
      /\ apc \in [Lanes -> ActorSteps] /\ requests \in 0..MaxRequests
      /\ actors \in Seq(Lanes) /\ index \in Nat /\ Typed /\ HeldOK(l)
  BY DEF Inv, Typed
<1>2. /\ slots' \in [Lanes -> [Pool -> SlotType]]
      /\ \A k \in Lanes, t \in Pool : SlotOK(slots'[k][t])
      /\ \A k \in Lanes, t \in Pool : k # l \/ t # s => slots'[k][t] = slots[k][t]
  <2>1. Update(l, s, new)
    BY DEF EmptiesHand
  <2>2. Updated(l, s, new)
    BY <2>1, SlotUpdate
  <2> QED
    BY <2>2 DEF Updated
<1>3. NoCommand \in Commands
  BY LaneAssumption, SMTT(40) DEF NoCommand, Commands, None
<1>4. own' \in [Lanes -> Commands] /\ opc' \in [Lanes -> OwnerSteps] /\ opc'[l] = "idle"
  BY <1>t, <1>3 DEF OwnerSteps
<1>5. HeldOK(l)'
  <2>1. ~InHand(l)'
    BY <1>4 DEF InHand
  <2>2. Running(l)' => Running(l) /\ cmd'[l] = cmd[l] /\ cmd[l].slot # s
    BY <1>t DEF HeldOK, Running, EmptiesHand
  <2>3. DOMAIN mail'[l] \subseteq Nat
    BY <1>t, SMTT(40)
  <2>4. \A i \in DOMAIN mail'[l] : /\ i + 0 \in DOMAIN mail[l]
                                   /\ mail'[l][i].cmd = mail[l][i + 0].cmd
                                   /\ mail[l][i + 0].cmd.slot # s
    BY <1>t, <2>3, SMTT(40) DEF HeldOK, EmptiesHand
  <2>5. 0 \in Nat /\ \A t \in Pool : t # s => slots[l][t].tx \subseteq slots'[l][t].tx
    BY <1>2
  <2>f. Frame(l, s, 0)
    BY <2>1, <2>2, <2>3, <2>4, <2>5 DEF Frame
  <2> QED
    BY <1>t, <2>5, <2>f, HeldFrame
<1>6. ActorOK(l)' /\ \A k \in Lanes : apc[k] = "replied" => Polled(k)'
  BY DEF Inv, ActorOK, Polled
<1>7. \A k \in Lanes : k # l =>
         /\ \A t \in Pool : slots'[k][t] = slots[k][t]
         /\ own'[k] = own[k] /\ opc'[k] = opc[k] /\ mail'[k] = mail[k]
         /\ cmd'[k] = cmd[k] /\ apc'[k] = apc[k]
         /\ (apc[k] = "replied" => Polled(k)')
  BY <1>2, <1>6, SMTT(40)
<1> QED
  BY <1>t, <1>2, <1>4, <1>5, <1>6, <1>7, LaneStep

\* Command::reject answers the request in hand.
LEMMA RejectInv ==
    ASSUME Inv, NEW l \in Lanes, InHand(l), Reject(l),
           mail' = mail, cmd' = cmd, apc' = apc, incoming' = incoming,
           actors' = actors, index' = index, dpc' = dpc, requests' = requests
    PROVE  Inv'
<1>0. PICK s \in Pool : s = own[l].slot /\ own[l].req \in slots[l][s].tx
  BY DEF Inv, HeldOK, Held
<1> DEFINE slot == slots[l][s]
           new == RejectCommand(slot, own[l].req)
<1>1. slot \in SlotType /\ SlotOK(slot) /\ own[l].req \in slot.tx
  BY <1>0 DEF Inv, Typed
<1>2. EmptiesHand(l, s, new)
  BY <1>0 DEF Reject, InSlot, EmptiesHand, Update
<1>3. own' = [own EXCEPT ![l] = NoCommand] /\ opc' = [opc EXCEPT ![l] = "idle"]
  BY DEF Reject, GoTo
<1>4. new \in SlotType /\ SlotOK(new)
  BY <1>1, RepliesKeepSlot
<1> HIDE DEF new
<1> QED
  BY <1>0, <1>2, <1>3, <1>4, HandEmptied

\* A pre-flight reject gives up both endpoints.
LEMMA PrepFailsInv ==
    ASSUME Inv, NEW l \in Lanes, PrepFails(l) PROVE Inv'
<1>0. InHand(l)
  BY DEF PrepFails, InHand
<1>1. PICK s \in Pool : s = own[l].slot /\ own[l].req \in slots[l][s].tx
  BY <1>0 DEF Inv, HeldOK, Held
<1> DEFINE slot == slots[l][s]
           dropped == DropCommand(slot, own[l].req)
           new == DropReceiver(dropped, own[l].req)
<1>2. slot \in SlotType /\ SlotOK(slot) /\ own[l].req \in slot.tx
  BY <1>1 DEF Inv, Typed
<1>3. EmptiesHand(l, s, new)
  BY <1>1 DEF PrepFails, EmptiesHand, Update
<1>4. /\ own' = [own EXCEPT ![l] = NoCommand] /\ opc' = [opc EXCEPT ![l] = "idle"]
      /\ mail' = mail /\ cmd' = cmd /\ apc' = apc /\ incoming' = incoming
      /\ actors' = actors /\ index' = index /\ dpc' = dpc /\ requests' = requests
  BY DEF PrepFails, GoTo, rootVars, reactorVars, laneVars
<1>5. dropped \in SlotType /\ SlotOK(dropped)
  BY <1>2, RepliesKeepSlot
<1>6. new \in SlotType /\ SlotOK(new)
  <2> HIDE DEF dropped
  <2> QED
    BY <1>5, ReleaseKeepsSlot
<1> HIDE DEF new
<1> QED
  BY <1>0, <1>1, <1>3, <1>4, <1>6, HandEmptied

\* The two liveness checks of a send: on to the mailbox, or a reject.
LEMMA SendCheckInv ==
    ASSUME Inv, NEW l \in Lanes, SendCheck(l) PROVE Inv'
<1>1. InHand(l)
  BY DEF SendCheck, InHand
<1>2. /\ mail' = mail /\ cmd' = cmd /\ apc' = apc /\ incoming' = incoming
      /\ actors' = actors /\ index' = index /\ dpc' = dpc /\ requests' = requests
  BY DEF SendCheck, rootVars, reactorVars, laneVars, bounds
<1>3. CASE Reject(l)
  BY <1>1, <1>2, <1>3, RejectInv
<1>4. CASE slots' = slots /\ own' = own /\ opc' = [opc EXCEPT ![l] = "enqueue"]
  <2>t. /\ own \in [Lanes -> Commands] /\ opc \in [Lanes -> OwnerSteps]
        /\ incoming \in Seq(Queued) /\ actors \in Seq(Lanes) /\ index \in Nat
    BY DEF Inv, Typed
  <2>1. opc' \in [Lanes -> OwnerSteps]
    BY <1>4, <2>t DEF OwnerSteps
  <2>2. \A k \in Lanes : InHand(k)' => InHand(k) /\ own'[k] = own[k]
    BY <1>1, <1>4, <2>t DEF InHand
  <2>3. \A k \in Lanes : apc[k] = "replied" => Polled(k)'
    BY <1>2 DEF Inv, ActorOK, Polled
  <2> QED
    BY <1>2, <1>4, <2>t, <2>1, <2>2, <2>3, QuietStep
<1> QED
  BY <1>3, <1>4 DEF SendCheck, GoTo

\* The command moves from the owner's hand to the end of the mailbox.
Enqueued(l) ==
    /\ mail' = [mail EXCEPT ![l] = Append(mail[l], [cmd |-> own[l], ready |-> FALSE])]
    /\ opc' = [opc EXCEPT ![l] = "publish_command"]

\* A command moves from the owner's hand to the tail of the mailbox.
LEMMA EnqueueInv ==
    ASSUME Inv, NEW l \in Lanes, InHand(l), Enqueued(l),
           slots' = slots, own' = own, cmd' = cmd, apc' = apc, incoming' = incoming,
           actors' = actors, index' = index, dpc' = dpc, requests' = requests
    PROVE  Inv'
<1>t. /\ own \in [Lanes -> Commands] /\ mail \in [Lanes -> Seq(Entries)]
      /\ cmd \in [Lanes -> Commands] /\ opc \in [Lanes -> OwnerSteps]
      /\ apc \in [Lanes -> ActorSteps] /\ requests \in 0..MaxRequests
      /\ slots \in [Lanes -> [Pool -> SlotType]]
      /\ actors \in Seq(Lanes) /\ index \in Nat /\ HeldOK(l)
  BY DEF Inv, Typed
<1> DEFINE entry == [cmd |-> own[l], ready |-> FALSE]
<1>1. entry \in Entries /\ entry.cmd = own[l]
  BY <1>t DEF Entries
<1> HIDE DEF entry
<1>2. mail' \in [Lanes -> Seq(Entries)] /\ mail'[l] = Append(mail[l], entry)
  BY <1>t, <1>1, SMTT(40) DEF entry, Enqueued
<1>3. opc' \in [Lanes -> OwnerSteps] /\ opc'[l] = "publish_command"
  BY <1>t DEF OwnerSteps, Enqueued
<1>h. HeldOK(l) /\ mail[l] \in Seq(Entries)
  BY <1>t
<1>4. HeldOK(l)'
  <2> DEFINE n == Len(mail[l])
  <2>1. n \in Nat /\ DOMAIN mail[l] = 1..n /\ DOMAIN mail'[l] = 1..(n + 1)
    BY <1>h, <1>1, <1>2, SMTT(40)
  <2>2. mail'[l][n + 1] = entry /\ \A i \in 1..n : mail'[l][i] = mail[l][i]
    BY <1>h, <1>1, <1>2, SMTT(40)
  <2>3. ~InHand(l)' /\ (Running(l)' <=> Running(l))
    BY <1>3 DEF InHand, Running
  <2> HIDE DEF n
  <2>4. \A i \in 1..(n + 1) : i = n + 1 \/ i \in 1..n
    BY <2>1, SMTT(40)
  <2>h. \A i \in 1..n : /\ Held(l, mail[l][i].cmd) /\ mail[l][i].cmd.slot # own[l].slot
                        /\ Running(l) => mail[l][i].cmd.slot # cmd[l].slot
    BY <1>h, <2>1 DEF HeldOK
  <2>o. Held(l, own[l]) /\ (Running(l) => cmd[l].slot # own[l].slot)
    BY <1>h DEF HeldOK
  <2>5. \A i \in 1..(n + 1) : Held(l, mail'[l][i].cmd)
    BY <1>1, <2>h, <2>o, <2>2, <2>4
  <2>6. Running(l) => \A i \in 1..(n + 1) : mail'[l][i].cmd.slot # cmd[l].slot
    BY <1>1, <2>h, <2>o, <2>2, <2>4
  <2>7. \A i, j \in 1..(n + 1) : i # j => mail'[l][i].cmd.slot # mail'[l][j].cmd.slot
    <3>1. \A i \in 1..n : mail'[l][i].cmd.slot # own[l].slot
      BY <2>h, <2>2
    <3>2. \A i, j \in 1..n : i # j => mail'[l][i].cmd.slot # mail'[l][j].cmd.slot
      <4>1. \A i, j \in 1..n : i # j => mail[l][i].cmd.slot # mail[l][j].cmd.slot
        BY <1>h, <2>1 DEF HeldOK
      <4> QED
        BY <2>2, <4>1
    <3>3. mail'[l][n + 1].cmd.slot = own[l].slot
      BY <1>1, <2>2
    <3> QED
      BY <2>4, <3>1, <3>2, <3>3
  <2>8. Running(l)' => cmd'[l].slot \in Pool /\ cmd'[l].req \in slots'[l][cmd'[l].slot].tx
    BY <1>h, <2>3 DEF HeldOK, Held
  <2>9. \A i \in DOMAIN mail'[l] : /\ mail'[l][i].cmd.slot \in Pool
                                   /\ mail'[l][i].cmd.req \in slots'[l][mail'[l][i].cmd.slot].tx
    BY <2>1, <2>5 DEF Held
  <2>10. Running(l)' => \A i \in DOMAIN mail'[l] : mail'[l][i].cmd.slot # cmd'[l].slot
    BY <2>1, <2>3, <2>6
  <2>11. \A i, j \in DOMAIN mail'[l] : i # j => mail'[l][i].cmd.slot # mail'[l][j].cmd.slot
    BY <2>1, <2>7
  <2> QED
    BY <2>3, <2>8, <2>9, <2>10, <2>11 DEF HeldOK, Held
<1>5. ActorOK(l)' /\ \A k \in Lanes : apc[k] = "replied" => Polled(k)'
  BY DEF Inv, ActorOK, Polled
<1>6. \A k \in Lanes : k # l =>
         /\ \A t \in Pool : slots'[k][t] = slots[k][t]
         /\ own'[k] = own[k] /\ opc'[k] = opc[k] /\ mail'[k] = mail[k]
         /\ cmd'[k] = cmd[k] /\ apc'[k] = apc[k]
         /\ (apc[k] = "replied" => Polled(k)')
  BY <1>5, SMTT(40) DEF Enqueued
<1>7. \A k \in Lanes, t \in Pool : SlotOK(slots'[k][t])
  BY DEF Inv
<1> QED
  BY <1>t, <1>2, <1>3, <1>4, <1>5, <1>6, <1>7, LaneStep

\* The mailbox takes the command, or is full and the command is rejected.
LEMMA SendReserveInv ==
    ASSUME Inv, NEW l \in Lanes, SendReserve(l) PROVE Inv'
<1>1. InHand(l)
  BY DEF SendReserve, InHand
<1>2. /\ cmd' = cmd /\ apc' = apc /\ incoming' = incoming
      /\ actors' = actors /\ index' = index /\ dpc' = dpc /\ requests' = requests
  BY DEF SendReserve, rootVars, reactorVars, bounds
<1>3. CASE Reject(l) /\ mail' = mail
  BY <1>1, <1>2, <1>3, RejectInv
<1>4. CASE ~(Reject(l) /\ mail' = mail)
  <2>1. Enqueued(l) /\ slots' = slots /\ own' = own
    BY <1>4 DEF SendReserve, GoTo, Enqueued
  <2> QED
    BY <1>1, <1>2, <2>1, EnqueueInv
<1> QED
  BY <1>3, <1>4

\* Publication only sets the flag of the last command.
LEMMA SendPublishInv ==
    ASSUME Inv, NEW l \in Lanes, SendPublish(l) PROVE Inv'
<1>t. /\ own \in [Lanes -> Commands] /\ mail \in [Lanes -> Seq(Entries)]
      /\ cmd \in [Lanes -> Commands] /\ opc \in [Lanes -> OwnerSteps]
      /\ apc \in [Lanes -> ActorSteps] /\ requests \in 0..MaxRequests
      /\ slots \in [Lanes -> [Pool -> SlotType]]
      /\ actors \in Seq(Lanes) /\ index \in Nat /\ Typed /\ HeldOK(l)
  BY DEF Inv, Typed
<1>1. /\ slots' = slots /\ own' = own /\ cmd' = cmd /\ apc' = apc /\ incoming' = incoming
      /\ actors' = actors /\ index' = index /\ dpc' = dpc /\ requests' = requests
      /\ opc' = [opc EXCEPT ![l] = "recheck_inbox"]
  BY DEF SendPublish, GoTo, rootVars, reactorVars, bounds
<1> DEFINE q == mail[l]
           n == Len(q)
           published == [q EXCEPT ![n].ready = TRUE]
<1>2. mail' = [mail EXCEPT ![l] = published]
  BY DEF SendPublish
<1>3. q \in Seq(Entries)
  BY <1>t
<1>4. /\ published \in Seq(Entries) /\ DOMAIN published = DOMAIN q /\ DOMAIN q \subseteq Nat
      /\ \A i \in DOMAIN q : published[i].cmd = q[i].cmd
  <2> HIDE DEF q
  <2>1. n \in Nat /\ DOMAIN q = 1..n /\ \A i \in 1..n : q[i] \in Entries
    BY <1>3, SMTT(40)
  <2>2. \A i \in 1..n : [q[i] EXCEPT !.ready = TRUE] \in Entries
                        /\ [q[i] EXCEPT !.ready = TRUE].cmd = q[i].cmd
    BY <2>1 DEF Entries
  <2>3. DOMAIN published = 1..n /\ published = [i \in 1..n |-> published[i]]
    BY <2>1
  <2>4. \A i \in 1..n : published[i] = q[i] \/ published[i] = [q[i] EXCEPT !.ready = TRUE]
    BY <2>1
  <2> HIDE DEF published
  <2>5. \A i \in 1..n : published[i] \in Entries /\ published[i].cmd = q[i].cmd
    BY <2>1, <2>2, <2>4
  <2> QED
    BY <2>1, <2>3, <2>5, SMTT(40)
<1> HIDE DEF published
<1>5. mail' \in [Lanes -> Seq(Entries)] /\ mail'[l] = published
  BY <1>t, <1>2, <1>4
<1>6. opc' \in [Lanes -> OwnerSteps] /\ opc'[l] = "recheck_inbox"
  BY <1>t, <1>1 DEF OwnerSteps
<1>7. HeldOK(l)'
  <2>1. ~InHand(l)' /\ (Running(l)' <=> Running(l))
    BY <1>1, <1>6 DEF InHand, Running
  <2>2. 0 \notin Pool /\ 0 \in Nat
    BY SMTT(40) DEF Pool
  <2>3. Running(l)' => Running(l) /\ cmd'[l] = cmd[l] /\ cmd[l].slot # 0
    BY <1>t, <1>1, <2>1, <2>2 DEF HeldOK, Held
  <2>4. \A i \in DOMAIN mail'[l] : /\ i + 0 \in DOMAIN mail[l]
                                   /\ mail'[l][i].cmd = mail[l][i + 0].cmd
                                   /\ mail[l][i + 0].cmd.slot # 0
    <3>1. HeldOK(l)
      BY DEF Inv
    <3>2. \A i \in DOMAIN mail[l] : mail[l][i].cmd.slot # 0
      BY <2>2, <3>1 DEF HeldOK, Held
    <3>3. \A i \in DOMAIN mail'[l] : /\ i \in DOMAIN mail[l] /\ i + 0 = i
                                     /\ mail'[l][i].cmd = mail[l][i].cmd
      BY <1>4, <1>5, SMTT(40)
    <3> QED
      BY <3>2, <3>3
  <2>5. DOMAIN mail'[l] \subseteq Nat
    BY <1>4, <1>5
  <2>6. \A t \in Pool : t # 0 => slots[l][t].tx \subseteq slots'[l][t].tx
    BY <1>1
  <2>f. Frame(l, 0, 0)
    BY <2>1, <2>3, <2>4, <2>5, <2>6 DEF Frame
  <2> QED
    BY <1>t, <2>2, <2>f, HeldFrame
<1>8. ActorOK(l)' /\ \A k \in Lanes : apc[k] = "replied" => Polled(k)'
  BY <1>1 DEF Inv, ActorOK, Polled
<1>9. \A k \in Lanes : k # l =>
         /\ \A t \in Pool : slots'[k][t] = slots[k][t]
         /\ own'[k] = own[k] /\ opc'[k] = opc[k] /\ mail'[k] = mail[k]
         /\ cmd'[k] = cmd[k] /\ apc'[k] = apc[k]
         /\ (apc[k] = "replied" => Polled(k)')
  BY <1>1, <1>2, <1>8, SMTT(40)
<1>10. \A k \in Lanes, t \in Pool : SlotOK(slots'[k][t])
  BY <1>1 DEF Inv
<1> QED
  BY <1>t, <1>1, <1>5, <1>6, <1>7, <1>8, <1>9, <1>10, LaneStep

-----------------------------------------------------------------------------
(* The steps of the reactor, and of whoever discards a mailbox *)

\* Vec::swap_remove returns a sequence of actors.
LEMMA SwapRemoveType ==
    ASSUME NEW seq \in Seq(Lanes), NEW i \in Nat, seq # <<>> PROVE SwapRemove(seq, i) \in Seq(Lanes)
<1>1. Len(seq) \in Nat /\ Len(seq) > 0 /\ \A k \in 1..Len(seq) : seq[k] \in Lanes
  BY SMTT(40)
<1> QED
  BY <1>1, SMTT(40) DEF SwapRemove

\* The reactor's steps that touch no slot and discard nothing.
LEMMA ReactorQuiet ==
    ASSUME Inv,
           \/ PollBegin \/ PollIncoming \/ PollEnd \/ CloseInbox \/ Retire \/ DriverDrop
           \/ DropIncoming
           \/ \E l \in Lanes : RecvYield(l) \/ RecvEmpty(l) \/ RunPending(l)
    PROVE  Inv'
<1>t. /\ own \in [Lanes -> Commands] /\ opc \in [Lanes -> OwnerSteps]
      /\ incoming \in Seq(Queued) /\ actors \in Seq(Lanes) /\ index \in Nat
  BY DEF Inv, Typed
<1>1. /\ slots' = slots /\ mail' = mail /\ cmd' = cmd /\ apc' = apc
      /\ requests' = requests /\ own' = own /\ opc' = opc
  BY DEF PollBegin, PollIncoming, PollEnd, CloseInbox, Retire, DriverDrop, DropIncoming,
         RecvYield, RecvEmpty, RunPending, laneVars, ownerVars, bounds
<1>2. index' \in Nat
  <2>1. index' \in {index, index + 1, 1}
    BY DEF PollBegin, PollIncoming, PollEnd, CloseInbox, Retire, DriverDrop, DropIncoming,
           RecvYield, RecvEmpty, RunPending
  <2> QED
    BY <1>t, <2>1, SMTT(40)
<1>3. incoming' \in Seq(Queued)
  <2>1. CASE PollIncoming
    BY <1>t, <2>1, QueueFacts DEF PollIncoming, HeadReady
  <2>2. CASE DropIncoming
    BY <1>t, <2>2, QueueFacts DEF DropIncoming, HeadReady
  <2> QED
    BY <1>t, <2>1, <2>2 DEF PollBegin, PollEnd, CloseInbox, Retire, DriverDrop,
         RecvYield, RecvEmpty, RunPending, rootVars
<1>4. actors' \in Seq(Lanes)
  <2>1. CASE PollIncoming
    <3>1. CASE HeadReady(incoming)
      <4>1. Head(incoming) \in Queued
        BY <1>t, <3>1, QueueFacts DEF HeadReady
      <4>2. Head(incoming).lane \in Lanes
        BY <4>1 DEF Queued
      <4> QED
        BY <1>t, <2>1, <3>1, <4>2, SMTT(40) DEF PollIncoming
    <3>2. CASE ~HeadReady(incoming)
      BY <1>t, <2>1, <3>2 DEF PollIncoming
    <3> QED
      BY <3>1, <3>2
  <2>2. CASE Retire
    <3>1. CASE actors # <<>>
      BY <1>t, <2>2, <3>1, SwapRemoveType DEF Retire
    <3>2. CASE actors = <<>>
      <4>1. Len(actors) = 0
        BY <3>2
      <4>2. actors' = [k \in 1..(0 - 1) |-> IF k = index THEN actors[0] ELSE actors[k]]
        BY <2>2, <4>1 DEF Retire, SwapRemove
      <4>3. 1..(0 - 1) = {}
        BY SMTT(40)
      <4> QED
        BY <4>2, <4>3, SMTT(40)
    <3> QED
      BY <3>1, <3>2
  <2> QED
    BY <1>t, <2>1, <2>2 DEF PollBegin, PollEnd, CloseInbox, DriverDrop, DropIncoming,
         RecvYield, RecvEmpty, RunPending, rootVars
<1>5. \A k \in Lanes : apc[k] # "replied"
  <2> SUFFICES ASSUME NEW k \in Lanes, apc[k] = "replied" PROVE FALSE
    OBVIOUS
  <2>1. dpc = "actors" /\ index <= Len(actors) /\ actors[index] = k
    BY RepliedBlocks
  <2>2. CASE PollEnd
    BY <1>t, <2>1, <2>2, SMTT(40) DEF PollEnd
  <2>3. CASE \E l \in Lanes : RecvYield(l) \/ RecvEmpty(l) \/ RunPending(l)
    BY <2>1, <2>3 DEF RecvYield, RecvEmpty, RunPending, Polled
  <2> QED
    BY <2>1, <2>2, <2>3 DEF PollBegin, PollIncoming, CloseInbox, Retire, DriverDrop, DropIncoming
<1>6. \A k \in Lanes : InHand(k)' => InHand(k) /\ own'[k] = own[k]
  BY <1>1 DEF InHand
<1> QED
  BY <1>t, <1>1, <1>2, <1>3, <1>4, <1>5, <1>6, QuietStep

\* A closed mailbox loses its first command, and the command is dropped.
Discarded(k) ==
    /\ HeadReady(mail[k])
    /\ mail' = [mail EXCEPT ![k] = Tail(mail[k])]
    /\ slots' = InSlot(k, Head(mail[k]).cmd, DropCommand)

\* The head of a closed mailbox is dropped: its request gets the typed failure.
LEMMA DiscardedInv ==
    ASSUME Inv, NEW k, Discarded(k),
           own' = own, opc' = opc, cmd' = cmd, apc' = apc, incoming' = incoming,
           actors' = actors, index' = index, dpc' = dpc, requests' = requests
    PROVE  Inv'
<1>t. /\ own \in [Lanes -> Commands] /\ mail \in [Lanes -> Seq(Entries)]
      /\ cmd \in [Lanes -> Commands] /\ opc \in [Lanes -> OwnerSteps]
      /\ apc \in [Lanes -> ActorSteps] /\ requests \in 0..MaxRequests
      /\ slots \in [Lanes -> [Pool -> SlotType]] /\ incoming \in Seq(Queued)
      /\ actors \in Seq(Lanes) /\ index \in Nat /\ Typed
  BY DEF Inv, Typed
<1>p. \A l \in Lanes : apc[l] = "replied" => Polled(l)'
  BY DEF Inv, ActorOK, Polled
<1>1. CASE k \notin Lanes
  <2>1. mail' = mail /\ slots' = slots
    BY <1>t, <1>1, SMTT(40) DEF Discarded, InSlot
  <2>2. \A l \in Lanes : InHand(l)' => InHand(l) /\ own'[l] = own[l]
    BY DEF InHand
  <2> QED
    BY <1>t, <1>p, <2>1, <2>2, QuietStep
<1>2. CASE k \in Lanes
  <2> DEFINE q == mail[k]
             n == Len(q)
  <2>1. q \in Seq(Entries) /\ q # <<>> /\ HeldOK(k)
    BY <1>t, <1>2 DEF Discarded, HeadReady, Inv
  <2>2. mail' \in [Lanes -> Seq(Entries)] /\ mail'[k] = Tail(q)
    <3>1. Tail(q) \in Seq(Entries)
      BY <2>1, QueueFacts
    <3> QED
      BY <1>t, <1>2, <3>1 DEF Discarded
  <2>3. /\ n \in Nat /\ n > 0 /\ DOMAIN q = 1..n /\ Head(q) = q[1]
        /\ DOMAIN Tail(q) = 1..(n - 1) /\ \A i \in 1..(n - 1) : Tail(q)[i] = q[i + 1]
    <3> HIDE DEF q
    <3> QED
      BY <2>1, SMTT(40)
  <2>4. PICK s \in Pool : s = Head(q).cmd.slot /\ Head(q).cmd.req \in slots[k][s].tx
    BY <2>1, <2>3, SMTT(40) DEF HeldOK, Held
  <2>5. PICK r : r = Head(q).cmd.req
    OBVIOUS
  <2> DEFINE new == DropCommand(slots[k][s], r)
  <2>6. slots' = [slots EXCEPT ![k][s] = new]
    BY <2>4, <2>5 DEF Discarded, InSlot
  <2>7. new \in SlotType /\ SlotOK(new)
    <3>1. slots[k][s] \in SlotType /\ SlotOK(slots[k][s]) /\ r \in slots[k][s].tx
      BY <1>t, <1>2, <2>4, <2>5 DEF Inv
    <3> QED
      BY <3>1, RepliesKeepSlot
  <2>8. /\ slots' \in [Lanes -> [Pool -> SlotType]]
        /\ \A l \in Lanes, t \in Pool : SlotOK(slots'[l][t])
        /\ \A l \in Lanes, t \in Pool : l # k \/ t # s => slots'[l][t] = slots[l][t]
    <3>1. PICK c : c = new
      OBVIOUS
    <3> HIDE DEF new
    <3>2. Update(k, s, c) /\ c \in SlotType /\ SlotOK(c)
      BY <2>6, <2>7, <3>1 DEF Update
    <3>3. Updated(k, s, c)
      BY <1>2, <3>2, SlotUpdate
    <3> QED
      BY <3>3 DEF Updated
  <2>9. HeldOK(k)'
    <3>1. InHand(k)' => InHand(k) /\ own'[k] = own[k] /\ own[k].slot # s
      BY <2>1, <2>3, <2>4, SMTT(40) DEF HeldOK, InHand
    <3>2. Running(k)' => Running(k) /\ cmd'[k] = cmd[k] /\ cmd[k].slot # s
      BY <2>1, <2>3, <2>4, SMTT(40) DEF HeldOK, Running
    <3>3. \A i \in 1..(n - 1) : i + 1 \in 1..n /\ i + 1 # 1
      BY <2>3, SMTT(40)
    <3>4. \A i \in 1..n : i # 1 => q[i].cmd.slot # s
      BY <2>1, <2>3, <2>4, SMTT(60) DEF HeldOK
    <3>5. \A i \in DOMAIN mail'[k] : /\ i + 1 \in DOMAIN mail[k]
                                     /\ mail'[k][i].cmd = mail[k][i + 1].cmd
                                     /\ mail[k][i + 1].cmd.slot # s
      BY <2>2, <2>3, <3>3, <3>4
    <3>6. DOMAIN mail'[k] \subseteq Nat /\ 1 \in Nat
      BY <2>2, <2>3, SMTT(40)
    <3>7. \A t \in Pool : t # s => slots[k][t].tx \subseteq slots'[k][t].tx
      BY <1>2, <2>8
    <3>f. Frame(k, s, 1)
      BY <3>1, <3>2, <3>5, <3>6, <3>7 DEF Frame
    <3> QED
      BY <1>t, <1>2, <2>1, <3>6, <3>f, HeldFrame
  <2>10. ActorOK(k)'
    BY <1>2 DEF Inv, ActorOK, Polled
  <2>11. \A l \in Lanes : l # k =>
           /\ \A t \in Pool : slots'[l][t] = slots[l][t]
           /\ own'[l] = own[l] /\ opc'[l] = opc[l] /\ mail'[l] = mail[l]
           /\ cmd'[l] = cmd[l] /\ apc'[l] = apc[l]
           /\ (apc[l] = "replied" => Polled(l)')
    BY <1>p, <2>8, SMTT(40) DEF Discarded
  <2> QED
    BY <1>t, <1>2, <2>2, <2>8, <2>9, <2>10, <2>11, LaneStep
<1> QED
  BY <1>1, <1>2

\* close_and_discard and discard_if_disconnected, on any thread.
LEMMA DiscardsInv ==
    ASSUME Inv, (\E l \in Lanes : SendDiscard(l) \/ DiscardInbox(l)) \/ Discard
    PROVE  Inv'
<1>t. /\ own \in [Lanes -> Commands] /\ opc \in [Lanes -> OwnerSteps]
      /\ incoming \in Seq(Queued) /\ actors \in Seq(Lanes) /\ index \in Nat
  BY DEF Inv, Typed
<1>1. /\ own' = own /\ cmd' = cmd /\ apc' = apc /\ incoming' = incoming
      /\ actors' = actors /\ index' = index /\ requests' = requests
  BY DEF SendDiscard, DiscardInbox, Discard, rootVars, reactorVars, ownerVars, bounds
<1>2. ASSUME NEW l \in Lanes, SendDiscard(l) \/ DiscardInbox(l) PROVE Inv'
  <2>1. dpc' = dpc
    BY <1>2 DEF SendDiscard, DiscardInbox, reactorVars
  <2>2. \/ opc' = opc /\ \E k : Discarded(k)
        \/ slots' = slots /\ mail' = mail
           /\ \E pc \in {"wake", "drain"} : opc' = [opc EXCEPT ![l] = pc]
    BY <1>2 DEF SendDiscard, DiscardInbox, DiscardTurn, Discarded, GoTo
  <2>3. CASE opc' = opc /\ \E k : Discarded(k)
    BY <1>1, <2>1, <2>3, DiscardedInv
  <2>4. CASE /\ slots' = slots /\ mail' = mail
             /\ \E pc \in {"wake", "drain"} : opc' = [opc EXCEPT ![l] = pc]
    <3>1. opc' \in [Lanes -> OwnerSteps]
      BY <1>t, <2>4 DEF OwnerSteps
    <3>2. \A k \in Lanes : InHand(k)' => InHand(k) /\ own'[k] = own[k]
      BY <1>t, <1>1, <2>4 DEF InHand
    <3>3. \A k \in Lanes : apc[k] = "replied" => Polled(k)'
      BY <1>1, <2>1 DEF Inv, ActorOK, Polled
    <3> QED
      BY <1>t, <1>1, <2>4, <3>1, <3>2, <3>3, QuietStep
  <2> QED
    BY <2>2, <2>3, <2>4
<1>3. ASSUME Discard PROVE Inv'
  <2>1. opc' = opc
    BY <1>3 DEF Discard, ownerVars
  <2>2. (dpc' = dpc /\ \E k : Discarded(k)) \/ (slots' = slots /\ mail' = mail)
    BY <1>3 DEF Discard, DiscardTurn, Discarded
  <2>3. CASE dpc' = dpc /\ \E k : Discarded(k)
    BY <1>1, <2>1, <2>3, DiscardedInv
  <2>4. CASE slots' = slots /\ mail' = mail
    <3>1. \A k \in Lanes : InHand(k)' => InHand(k) /\ own'[k] = own[k]
      BY <1>1, <2>1 DEF InHand
    <3>2. \A k \in Lanes : apc[k] # "replied"
      BY <1>3, RepliedBlocks DEF Discard
    <3> QED
      BY <1>t, <1>1, <2>1, <2>4, <3>1, <3>2, QuietStep
  <2> QED
    BY <2>2, <2>3, <2>4
<1> QED
  BY <1>2, <1>3

\* The command moves from the head of the mailbox to the actor.
LEMMA RecvCommandInv ==
    ASSUME Inv, NEW l \in Lanes, RecvCommand(l) PROVE Inv'
<1>t. /\ own \in [Lanes -> Commands] /\ mail \in [Lanes -> Seq(Entries)]
      /\ cmd \in [Lanes -> Commands] /\ opc \in [Lanes -> OwnerSteps]
      /\ apc \in [Lanes -> ActorSteps] /\ requests \in 0..MaxRequests
      /\ slots \in [Lanes -> [Pool -> SlotType]]
      /\ actors \in Seq(Lanes) /\ index \in Nat /\ HeldOK(l)
  BY DEF Inv, Typed
<1>1. /\ slots' = slots /\ own' = own /\ opc' = opc /\ incoming' = incoming
      /\ actors' = actors /\ requests' = requests /\ index' = index + 1
      /\ cmd' = [cmd EXCEPT ![l] = Head(mail[l]).cmd]
      /\ mail' = [mail EXCEPT ![l] = Tail(mail[l])]
      /\ apc' = [apc EXCEPT ![l] = "network"]
  BY DEF RecvCommand, rootVars, ownerVars, bounds
<1>2. apc[l] = "recv" /\ Polled(l) /\ mail[l] # <<>>
  BY DEF RecvCommand, HeadReady
<1> DEFINE q == mail[l]
           n == Len(q)
<1>3. /\ n \in Nat /\ n > 0 /\ DOMAIN q = 1..n /\ Head(q) = q[1] /\ Head(q) \in Entries
      /\ Tail(q) \in Seq(Entries)
      /\ DOMAIN Tail(q) = 1..(n - 1) /\ \A i \in 1..(n - 1) : Tail(q)[i] = q[i + 1]
  <2>1. q \in Seq(Entries) /\ q # <<>>
    BY <1>t, <1>2
  <2> HIDE DEF q
  <2> QED
    BY <2>1, QueueFacts, SMTT(40)
<1>4. /\ mail' \in [Lanes -> Seq(Entries)] /\ mail'[l] = Tail(q)
      /\ cmd' \in [Lanes -> Commands] /\ cmd'[l] = q[1].cmd
      /\ apc' \in [Lanes -> ActorSteps] /\ apc'[l] = "network"
  <2>1. Head(q).cmd \in Commands
    BY <1>3 DEF Entries
  <2>2. mail' \in [Lanes -> Seq(Entries)] /\ mail'[l] = Tail(q)
    BY <1>t, <1>1, <1>3
  <2>3. cmd' \in [Lanes -> Commands] /\ cmd'[l] = q[1].cmd
    BY <1>t, <1>1, <1>3, <2>1
  <2> QED
    BY <1>t, <1>1, <2>2, <2>3 DEF ActorSteps
<1>5. HeldOK(l)'
  <2>1. (InHand(l)' <=> InHand(l)) /\ own'[l] = own[l]
    BY <1>1 DEF InHand
  <2>2. \A i \in 1..(n - 1) : i \in Nat /\ i + 1 \in 1..n /\ i + 1 # 1
    BY <1>3, SMTT(40)
  <2>3. 1 \in 1..n
    BY <1>3, SMTT(40)
  <2>4. \A i \in 1..n : Held(l, q[i].cmd) /\ (InHand(l) => q[i].cmd.slot # own[l].slot)
    BY <1>t, <1>3 DEF HeldOK
  <2>5. \A i, j \in 1..n : i # j => q[i].cmd.slot # q[j].cmd.slot
    BY <1>t, <1>3 DEF HeldOK
  <2>6. DOMAIN mail'[l] = 1..(n - 1) /\ \A i \in 1..(n - 1) : mail'[l][i] = q[i + 1]
    BY <1>3, <1>4
  <2>7. \A c : Held(l, c) => c.slot \in Pool /\ c.req \in slots'[l][c.slot].tx
    BY <1>1 DEF Held
  <2> HIDE DEF q, n
  <2>8. /\ InHand(l)' => own'[l].slot \in Pool /\ own'[l].req \in slots'[l][own'[l].slot].tx
        /\ cmd'[l].slot \in Pool /\ cmd'[l].req \in slots'[l][cmd'[l].slot].tx
    <3>1. InHand(l) => Held(l, own[l])
      BY <1>t DEF HeldOK
    <3> QED
      BY <1>4, <2>1, <2>3, <2>4, <2>7, <3>1
  <2>9. \A i \in DOMAIN mail'[l] : /\ mail'[l][i].cmd.slot \in Pool
                                   /\ mail'[l][i].cmd.req \in slots'[l][mail'[l][i].cmd.slot].tx
    BY <2>2, <2>4, <2>6, <2>7
  <2>10. /\ InHand(l)' => \A i \in DOMAIN mail'[l] : mail'[l][i].cmd.slot # own'[l].slot
         /\ InHand(l)' => cmd'[l].slot # own'[l].slot
         /\ \A i \in DOMAIN mail'[l] : mail'[l][i].cmd.slot # cmd'[l].slot
    <3>1. \A i \in 1..(n - 1) : q[i + 1].cmd.slot # q[1].cmd.slot
      BY <2>2, <2>3, <2>5
    <3>2. InHand(l) => /\ q[1].cmd.slot # own[l].slot
                       /\ \A i \in 1..(n - 1) : q[i + 1].cmd.slot # own[l].slot
      BY <2>2, <2>3, <2>4
    <3>3. \A i \in 1..(n - 1) : mail'[l][i].cmd.slot = q[i + 1].cmd.slot
      BY <2>6
    <3>4. cmd'[l].slot = q[1].cmd.slot
      BY <1>4
    <3> QED
      BY <2>1, <2>6, <3>1, <3>2, <3>3, <3>4, ZenonT(40)
  <2>11. \A i, j \in DOMAIN mail'[l] : i # j => mail'[l][i].cmd.slot # mail'[l][j].cmd.slot
    <3>1. \A i, j \in 1..(n - 1) : i # j => i + 1 # j + 1
      BY <2>2, SMTT(40)
    <3> QED
      BY <2>2, <2>5, <2>6, <3>1, SMTT(40)
  <2> QED
    BY <2>8, <2>9, <2>10, <2>11 DEF HeldOK, Held
<1>6. ActorOK(l)'
  <2>1. Held(l, q[1].cmd)
    BY <1>t, <1>3, SMTT(40) DEF HeldOK
  <2>2. q[1].cmd.slot \in Pool /\ q[1].cmd.req \in Requests
    BY <1>t, <2>1 DEF Held, SlotType
  <2> QED
    BY <1>4, <2>2 DEF ActorOK
<1>7. \A k \in Lanes : k # l =>
         /\ \A t \in Pool : slots'[k][t] = slots[k][t]
         /\ own'[k] = own[k] /\ opc'[k] = opc[k] /\ mail'[k] = mail[k]
         /\ cmd'[k] = cmd[k] /\ apc'[k] = apc[k]
         /\ (apc[k] = "replied" => Polled(k)')
  BY <1>t, <1>1, <1>2, OnlyPolledReplied
<1>8. (\A k \in Lanes, t \in Pool : SlotOK(slots'[k][t])) /\ index' \in Nat
  BY <1>t, <1>1, SMTT(40) DEF Inv
<1> QED
  BY <1>t, <1>1, <1>4, <1>5, <1>6, <1>7, <1>8, LaneStep

\* The network's answer wakes the root and moves no handle.
LEMMA NetworkAnswersInv ==
    ASSUME Inv, NEW l \in Lanes, NetworkAnswers(l) PROVE Inv'
<1>t. /\ own \in [Lanes -> Commands] /\ mail \in [Lanes -> Seq(Entries)]
      /\ cmd \in [Lanes -> Commands] /\ opc \in [Lanes -> OwnerSteps]
      /\ apc \in [Lanes -> ActorSteps] /\ requests \in 0..MaxRequests
      /\ slots \in [Lanes -> [Pool -> SlotType]]
      /\ actors \in Seq(Lanes) /\ index \in Nat /\ Typed /\ HeldOK(l) /\ ActorOK(l)
  BY DEF Inv, Typed
<1>1. /\ slots' = slots /\ own' = own /\ opc' = opc /\ incoming' = incoming /\ cmd' = cmd
      /\ actors' = actors /\ requests' = requests /\ index' = index /\ mail' = mail /\ dpc' = dpc
      /\ apc[l] = "network" /\ apc' = [apc EXCEPT ![l] = "answered"]
  BY DEF NetworkAnswers, reactorVars, ownerVars, bounds
<1>2. apc' \in [Lanes -> ActorSteps] /\ apc'[l] = "answered"
  BY <1>t, <1>1 DEF ActorSteps
<1>3. HeldOK(l)'
  <2>1. (InHand(l)' => InHand(l) /\ own'[l] = own[l]) /\ (Running(l)' => Running(l) /\ cmd'[l] = cmd[l])
    BY <1>1 DEF InHand, Running
  <2>2. mail'[l] = mail[l] /\ \A t \in Pool : slots[l][t].tx \subseteq slots'[l][t].tx
    BY <1>1
  <2> QED
    BY <1>t, <2>1, <2>2, HeldSame
<1>4. ActorOK(l)'
  BY <1>t, <1>1, <1>2 DEF ActorOK
<1>5. \A k \in Lanes : k # l =>
         /\ \A t \in Pool : slots'[k][t] = slots[k][t]
         /\ own'[k] = own[k] /\ opc'[k] = opc[k] /\ mail'[k] = mail[k]
         /\ cmd'[k] = cmd[k] /\ apc'[k] = apc[k]
         /\ (apc[k] = "replied" => Polled(k)')
  <2>1. \A k \in Lanes : apc[k] = "replied" => Polled(k)'
    BY <1>1 DEF Inv, ActorOK, Polled
  <2> QED
    BY <1>1, <2>1, SMTT(40)
<1>6. \A k \in Lanes, t \in Pool : SlotOK(slots'[k][t])
  BY <1>1 DEF Inv
<1> QED
  BY <1>t, <1>1, <1>2, <1>3, <1>4, <1>5, <1>6, LaneStep

-----------------------------------------------------------------------------
(* The end of a command, and the safety of the reply slots *)

\* A handle of slot s other than its Sender goes away.
Releases(l, s, new) ==
    new.tx = slots[l][s].tx /\ Update(l, s, new)

\* Whoever gives up a handle other than the Sender disturbs nobody.
LEMMA ReleaseInv ==
    ASSUME Inv, NEW l \in Lanes, NEW s \in Pool, NEW new \in SlotType, SlotOK(new),
           Releases(l, s, new),
           own' = own, opc' = opc, mail' = mail, cmd' = cmd, apc' = apc,
           incoming' = incoming, actors' = actors, index' = index, dpc' = dpc,
           requests' = requests
    PROVE  Inv'
<1>t. /\ own \in [Lanes -> Commands] /\ mail \in [Lanes -> Seq(Entries)]
      /\ cmd \in [Lanes -> Commands] /\ opc \in [Lanes -> OwnerSteps]
      /\ apc \in [Lanes -> ActorSteps] /\ requests \in 0..MaxRequests
      /\ actors \in Seq(Lanes) /\ index \in Nat /\ Typed /\ HeldOK(l)
  BY DEF Inv, Typed
<1>1. /\ slots' \in [Lanes -> [Pool -> SlotType]]
      /\ \A k \in Lanes, t \in Pool : SlotOK(slots'[k][t])
      /\ slots'[l][s] = new
      /\ \A k \in Lanes, t \in Pool : k # l \/ t # s => slots'[k][t] = slots[k][t]
  <2>1. Update(l, s, new)
    BY DEF Releases
  <2>2. Updated(l, s, new)
    BY <2>1, SlotUpdate
  <2> QED
    BY <2>2 DEF Updated
<1>2. HeldOK(l)'
  <2>1. \A t \in Pool : slots[l][t].tx \subseteq slots'[l][t].tx
    BY <1>1 DEF Releases
  <2>2. (InHand(l)' => InHand(l) /\ own'[l] = own[l]) /\ (Running(l)' => Running(l) /\ cmd'[l] = cmd[l])
    BY DEF InHand, Running
  <2> QED
    BY <1>t, <2>1, <2>2, HeldSame
<1>3. ActorOK(l)' /\ \A k \in Lanes : apc[k] = "replied" => Polled(k)'
  BY DEF Inv, ActorOK, Polled
<1>4. \A k \in Lanes : k # l =>
         /\ \A t \in Pool : slots'[k][t] = slots[k][t]
         /\ own'[k] = own[k] /\ opc'[k] = opc[k] /\ mail'[k] = mail[k]
         /\ cmd'[k] = cmd[k] /\ apc'[k] = apc[k]
         /\ (apc[k] = "replied" => Polled(k)')
  BY <1>1, <1>3
<1> QED
  BY <1>t, <1>1, <1>2, <1>3, <1>4, LaneStep

\* The completion handlers only release handles, after the reply was taken.
LEMMA CompleteInv ==
    ASSUME Inv, NEW l \in Lanes, TakeReply(l) \/ ReadTiming(l) \/ Abandon(l) PROVE Inv'
<1>1. /\ own' = own /\ opc' = opc /\ mail' = mail /\ cmd' = cmd /\ apc' = apc
      /\ incoming' = incoming /\ actors' = actors /\ index' = index /\ dpc' = dpc
      /\ requests' = requests
  BY DEF TakeReply, ReadTiming, Abandon, rootVars, reactorVars, laneVars, ownerVars, bounds
<1>2. PICK s \in Pool : \E r :
        \/ r \in slots[l][s].rx /\ slots' = [slots EXCEPT ![l][s] = AcceptReply(slots[l][s], r)]
        \/ slots' = [slots EXCEPT ![l][s] = DropReader(slots[l][s], r)]
        \/ slots' = [slots EXCEPT ![l][s] = DropReceiver(slots[l][s], r)]
  <2>1. CASE TakeReply(l)
    BY <2>1 DEF TakeReply
  <2>2. CASE ReadTiming(l)
    BY <2>2 DEF ReadTiming
  <2>3. CASE Abandon(l)
    BY <2>3 DEF Abandon
  <2> QED
    BY <2>1, <2>2, <2>3
<1>3. slots[l][s] \in SlotType /\ SlotOK(slots[l][s])
  BY DEF Inv, Typed
<1>4. PICK new \in SlotType : SlotOK(new) /\ Releases(l, s, new)
  BY <1>2, <1>3, ReleaseKeepsSlot DEF Releases, Update
<1> QED
  BY <1>1, <1>4, ReleaseInv

\* The actor has no command any more: it replied, or it was dropped.
StopsRunning(l, s, new) ==
    cmd[l].slot = s /\ Update(l, s, new)

\* A running command ends: its slot keeps what it promises, its actor holds none.
LEMMA StoppedInv ==
    ASSUME Inv, NEW l \in Lanes, Running(l), NEW new \in SlotType, SlotOK(new),
           NEW s \in Pool, StopsRunning(l, s, new), ~Running(l)', ActorOK(l)',
           cmd' \in [Lanes -> Commands], apc' \in [Lanes -> ActorSteps],
           \A k \in Lanes : k # l => /\ cmd'[k] = cmd[k] /\ apc'[k] = apc[k]
                                     /\ (apc[k] = "replied" => Polled(k)'),
           own' = own, opc' = opc, mail' = mail, incoming' = incoming,
           actors' \in Seq(Lanes), index' = index, requests' = requests
    PROVE  Inv'
<1>t. /\ own \in [Lanes -> Commands] /\ mail \in [Lanes -> Seq(Entries)]
      /\ opc \in [Lanes -> OwnerSteps] /\ requests \in 0..MaxRequests
      /\ index \in Nat /\ Typed /\ HeldOK(l)
  BY DEF Inv, Typed
<1>1. /\ slots' \in [Lanes -> [Pool -> SlotType]]
      /\ \A k \in Lanes, t \in Pool : SlotOK(slots'[k][t])
      /\ \A k \in Lanes, t \in Pool : k # l \/ t # s => slots'[k][t] = slots[k][t]
  <2>1. Update(l, s, new)
    BY DEF StopsRunning
  <2>2. Updated(l, s, new)
    BY <2>1, SlotUpdate
  <2> QED
    BY <2>2 DEF Updated
<1>2. HeldOK(l)'
  <2>1. InHand(l)' => InHand(l) /\ own'[l] = own[l] /\ own[l].slot # s
    BY <1>t DEF HeldOK, InHand, StopsRunning
  <2>2. DOMAIN mail'[l] \subseteq Nat
    BY <1>t, SMTT(40)
  <2>3. \A i \in DOMAIN mail'[l] : /\ i + 0 \in DOMAIN mail[l]
                                   /\ mail'[l][i].cmd = mail[l][i + 0].cmd
                                   /\ mail[l][i + 0].cmd.slot # s
    BY <1>t, <2>2, SMTT(40) DEF HeldOK, StopsRunning
  <2>4. 0 \in Nat /\ \A t \in Pool : t # s => slots[l][t].tx \subseteq slots'[l][t].tx
    BY <1>1
  <2>f. Frame(l, s, 0)
    BY <2>1, <2>2, <2>3, <2>4 DEF Frame
  <2> QED
    BY <1>t, <2>4, <2>f, HeldFrame
<1>3. \A k \in Lanes : k # l =>
         /\ \A t \in Pool : slots'[k][t] = slots[k][t]
         /\ own'[k] = own[k] /\ opc'[k] = opc[k] /\ mail'[k] = mail[k]
         /\ cmd'[k] = cmd[k] /\ apc'[k] = apc[k]
         /\ (apc[k] = "replied" => Polled(k)')
  BY <1>1
<1> QED
  BY <1>t, <1>1, <1>2, <1>3, LaneStep

\* What a running actor holds.
LEMMA RunningCommand ==
    ASSUME Inv, NEW l \in Lanes, Running(l)
    PROVE  \E s \in Pool, r \in Requests :
                              /\ s = cmd[l].slot /\ r = cmd[l].req
                              /\ r \in slots[l][s].tx
                              /\ slots[l][s] \in SlotType /\ SlotOK(slots[l][s])
<1>1. Held(l, cmd[l]) /\ slots \in [Lanes -> [Pool -> SlotType]]
  BY DEF Inv, HeldOK, Typed
<1>2. PICK s \in Pool : s = cmd[l].slot /\ cmd[l].req \in slots[l][s].tx
  BY <1>1 DEF Held
<1>3. slots[l][s] \in SlotType /\ SlotOK(slots[l][s])
  BY <1>1 DEF Inv
<1>4. cmd[l].req \in Requests
  BY <1>2, <1>3 DEF SlotType
<1> QED
  BY <1>2, <1>3, <1>4

\* Command::run answers its request and keeps the metadata.
LEMMA RunReplyInv ==
    ASSUME Inv, NEW l \in Lanes, RunReply(l) PROVE Inv'
<1>t. /\ cmd \in [Lanes -> Commands] /\ apc \in [Lanes -> ActorSteps] /\ actors \in Seq(Lanes)
  BY DEF Inv, Typed
<1>1. /\ own' = own /\ opc' = opc /\ mail' = mail /\ incoming' = incoming /\ dpc' = dpc
      /\ actors' = actors /\ index' = index /\ requests' = requests /\ cmd' = cmd
      /\ apc' = [apc EXCEPT ![l] = "replied"] /\ Polled(l) /\ Running(l)
  BY DEF RunReply, rootVars, reactorVars, ownerVars, bounds, Running
<1>2. PICK s \in Pool, r \in Requests :
                           /\ s = cmd[l].slot /\ r = cmd[l].req
                           /\ r \in slots[l][s].tx
                           /\ slots[l][s] \in SlotType /\ SlotOK(slots[l][s])
  BY <1>1, RunningCommand
<1>3. PICK new \in SlotType : SlotOK(new) /\ new = Answer(slots[l][s], r)
  BY <1>2, RepliesKeepSlot
<1>4. StopsRunning(l, s, new)
  BY <1>2, <1>3 DEF RunReply, InSlot, StopsRunning, Update
<1>5. apc' \in [Lanes -> ActorSteps] /\ apc'[l] = "replied" /\ ~Running(l)'
  BY <1>t, <1>1 DEF ActorSteps, Running
<1>6. ActorOK(l)'
  BY <1>1, <1>2, <1>5 DEF ActorOK, Polled
<1>7. \A k \in Lanes : k # l => /\ cmd'[k] = cmd[k] /\ apc'[k] = apc[k]
                                /\ (apc[k] = "replied" => Polled(k)')
  BY <1>1, OnlyPolledReplied, SMTT(40)
<1> QED
  BY <1>t, <1>1, <1>3, <1>4, <1>5, <1>6, <1>7, StoppedInv

\* Command::run drops the metadata after the reply, its last handle.
LEMMA RunEndInv ==
    ASSUME Inv, NEW l \in Lanes, RunEnd(l) PROVE Inv'
<1>t. /\ own \in [Lanes -> Commands] /\ mail \in [Lanes -> Seq(Entries)]
      /\ cmd \in [Lanes -> Commands] /\ opc \in [Lanes -> OwnerSteps]
      /\ apc \in [Lanes -> ActorSteps] /\ requests \in 0..MaxRequests
      /\ slots \in [Lanes -> [Pool -> SlotType]]
      /\ actors \in Seq(Lanes) /\ index \in Nat /\ Typed /\ HeldOK(l) /\ ActorOK(l)
  BY DEF Inv, Typed
<1>1. /\ own' = own /\ opc' = opc /\ mail' = mail /\ incoming' = incoming /\ dpc' = dpc
      /\ actors' = actors /\ index' = index /\ requests' = requests
      /\ cmd' = [cmd EXCEPT ![l] = NoCommand] /\ apc' = [apc EXCEPT ![l] = "recv"]
      /\ apc[l] = "replied" /\ Polled(l)
  BY DEF RunEnd, rootVars, ownerVars, bounds
<1>2. PICK s \in Pool, r \in Requests : s = cmd[l].slot /\ r = cmd[l].req
  BY <1>t, <1>1 DEF ActorOK
<1>3. slots[l][s] \in SlotType /\ SlotOK(slots[l][s])
  BY <1>t DEF Inv
<1>4. PICK new \in SlotType : /\ SlotOK(new) /\ new.tx = slots[l][s].tx
                              /\ new = DropWriter(slots[l][s], r)
  BY <1>3, ReleaseKeepsSlot
<1>5. Update(l, s, new)
  BY <1>2, <1>4 DEF RunEnd, InSlot, Update
<1>6. /\ slots' \in [Lanes -> [Pool -> SlotType]]
      /\ \A k \in Lanes, t \in Pool : SlotOK(slots'[k][t])
      /\ slots'[l][s] = new
      /\ \A k \in Lanes, t \in Pool : k # l \/ t # s => slots'[k][t] = slots[k][t]
  <2>1. Updated(l, s, new)
    BY <1>4, <1>5, SlotUpdate
  <2> QED
    BY <2>1 DEF Updated
<1>7. NoCommand \in Commands
  BY LaneAssumption, SMTT(40) DEF NoCommand, Commands, None
<1>8. /\ cmd' \in [Lanes -> Commands] /\ cmd'[l] = NoCommand
      /\ apc' \in [Lanes -> ActorSteps] /\ apc'[l] = "recv"
  BY <1>t, <1>1, <1>7 DEF ActorSteps
<1>9. HeldOK(l)'
  <2>1. \A t \in Pool : slots[l][t].tx \subseteq slots'[l][t].tx
    BY <1>4, <1>6
  <2>2. (InHand(l)' => InHand(l) /\ own'[l] = own[l]) /\ ~Running(l)' /\ mail'[l] = mail[l]
    BY <1>1, <1>8 DEF InHand, Running
  <2> QED
    BY <1>t, <2>1, <2>2, HeldSame
<1>10. ActorOK(l)'
  BY <1>8 DEF ActorOK
<1>11. \A k \in Lanes : k # l =>
         /\ \A t \in Pool : slots'[k][t] = slots[k][t]
         /\ own'[k] = own[k] /\ opc'[k] = opc[k] /\ mail'[k] = mail[k]
         /\ cmd'[k] = cmd[k] /\ apc'[k] = apc[k]
         /\ (apc[k] = "replied" => Polled(k)')
  <2>1. \A k \in Lanes : k # l => apc[k] # "replied"
    BY <1>1, OnlyPolledReplied
  <2> QED
    BY <1>1, <1>6, <2>1, SMTT(40)
<1> QED
  BY <1>t, <1>1, <1>6, <1>8, <1>9, <1>10, <1>11, LaneStep

\* Panic and the drop of the Driver take the command from the actor.
LEMMA DropRunningInv ==
    ASSUME Inv, NEW l \in Lanes, DropRunning(l),
           \A k \in Lanes : apc[k] # "replied",
           own' = own, opc' = opc, mail' = mail, incoming' = incoming,
           actors' \in Seq(Lanes), index' = index, requests' = requests
    PROVE  Inv'
<1>t. /\ cmd \in [Lanes -> Commands] /\ apc \in [Lanes -> ActorSteps] /\ ActorOK(l)
      /\ own \in [Lanes -> Commands] /\ opc \in [Lanes -> OwnerSteps]
      /\ incoming \in Seq(Queued) /\ index \in Nat
  BY DEF Inv, Typed
<1>1. cmd' = [cmd EXCEPT ![l] = NoCommand] /\ apc' = [apc EXCEPT ![l] = "recv"]
  BY DEF DropRunning
<1>2. NoCommand \in Commands
  BY LaneAssumption, SMTT(40) DEF NoCommand, Commands, None
<1>3. /\ cmd' \in [Lanes -> Commands] /\ cmd'[l] = NoCommand
      /\ apc' \in [Lanes -> ActorSteps] /\ apc'[l] = "recv" /\ ~Running(l)'
  BY <1>t, <1>1, <1>2 DEF ActorSteps, Running
<1>4. CASE apc[l] = "recv"
  <2>1. slots' = slots
    BY <1>t, <1>4 DEF DropRunning, ActorOK
  <2>2. cmd' = cmd /\ apc' = apc
    BY <1>t, <1>1, <1>4 DEF ActorOK
  <2>3. \A k \in Lanes : InHand(k)' => InHand(k) /\ own'[k] = own[k]
    BY DEF InHand
  <2> QED
    BY <1>t, <2>1, <2>2, <2>3, QuietStep
<1>5. CASE apc[l] # "recv"
  <2>1. Running(l)
    BY <1>t, <1>5 DEF Running, ActorSteps
  <2>2. PICK s \in Pool, r \in Requests :
                             /\ s = cmd[l].slot /\ r = cmd[l].req
                             /\ r \in slots[l][s].tx
                             /\ slots[l][s] \in SlotType /\ SlotOK(slots[l][s])
    BY <2>1, RunningCommand
  <2>3. PICK new \in SlotType : SlotOK(new) /\ new = DropCommand(slots[l][s], r)
    BY <2>2, RepliesKeepSlot
  <2>4. cmd[l] # NoCommand
    BY <2>2, SMTT(40) DEF NoCommand, None, Pool
  <2>5. StopsRunning(l, s, new)
    BY <2>2, <2>3, <2>4 DEF DropRunning, InSlot, StopsRunning, Update
  <2>6. ActorOK(l)'
    BY <1>3 DEF ActorOK
  <2>7. \A k \in Lanes : k # l => /\ cmd'[k] = cmd[k] /\ apc'[k] = apc[k]
                                  /\ (apc[k] = "replied" => Polled(k)')
    BY <1>1, SMTT(40)
  <2> QED
    BY <1>3, <2>1, <2>3, <2>5, <2>6, <2>7, StoppedInv
<1> QED
  BY <1>4, <1>5

\* A panic or the drop of the Driver answers the command it interrupts.
LEMMA ActorLostInv ==
    ASSUME Inv, (\E l \in Lanes : Panic(l)) \/ DropActors PROVE Inv'
<1>t. /\ own \in [Lanes -> Commands] /\ opc \in [Lanes -> OwnerSteps]
      /\ incoming \in Seq(Queued) /\ actors \in Seq(Lanes) /\ index \in Nat
  BY DEF Inv, Typed
<1>1. ASSUME NEW l \in Lanes, Panic(l) PROVE Inv'
  <2>1. /\ own' = own /\ opc' = opc /\ mail' = mail /\ incoming' = incoming
        /\ actors' = actors /\ index' = index /\ requests' = requests
        /\ DropRunning(l) /\ Polled(l) /\ apc[l] # "replied"
    BY <1>1 DEF Panic, rootVars, ownerVars
  <2>2. \A k \in Lanes : apc[k] # "replied"
    BY <2>1, OnlyPolledReplied
  <2> QED
    BY <1>t, <2>1, <2>2, DropRunningInv
<1>2. ASSUME DropActors PROVE Inv'
  <2>1. /\ own' = own /\ opc' = opc /\ mail' = mail /\ incoming' = incoming
        /\ index' = index /\ requests' = requests /\ dpc = "drop_actors"
    BY <1>2 DEF DropActors, ownerVars, bounds
  <2>2. \A k \in Lanes : apc[k] # "replied"
    BY <2>1, RepliedBlocks
  <2>3. CASE actors = <<>>
    <3>1. actors' = actors /\ slots' = slots /\ cmd' = cmd /\ apc' = apc
      BY <1>2, <2>3 DEF DropActors
    <3>2. \A k \in Lanes : InHand(k)' => InHand(k) /\ own'[k] = own[k]
      BY <2>1 DEF InHand
    <3> QED
      BY <1>t, <2>1, <2>2, <3>1, <3>2, QuietStep
  <2>4. CASE actors # <<>>
    <3>1. PICK l \in Lanes : l = Head(actors)
      BY <1>t, <2>4, QueueFacts
    <3>2. DropRunning(l) /\ actors' = Tail(actors)
      BY <1>2, <2>4, <3>1 DEF DropActors
    <3>3. actors' \in Seq(Lanes)
      BY <1>t, <2>4, <3>2, QueueFacts
    <3> QED
      BY <2>1, <2>2, <3>2, <3>3, DropRunningInv
  <2> QED
    BY <2>3, <2>4
<1> QED
  BY <1>1, <1>2

\* The driver starts with empty mailboxes and slots without handles.
LEMMA InitInv ==
    Init => Inv
<1> SUFFICES ASSUME Init PROVE Inv
  OBVIOUS
<1>1. EmptySlot \in SlotType /\ SlotOK(EmptySlot)
  BY LaneAssumption, SMTT(40) DEF EmptySlot, SlotType, SlotOK, Channels, None
<1>2. NoCommand \in Commands
  BY LaneAssumption, SMTT(40) DEF NoCommand, Commands, None
<1>3. /\ mail = [l \in Lanes |-> <<>>] /\ own = [l \in Lanes |-> NoCommand]
      /\ cmd = [l \in Lanes |-> NoCommand] /\ opc = [l \in Lanes |-> "new"]
      /\ apc = [l \in Lanes |-> "recv"] /\ requests = 0 /\ incoming = <<>>
      /\ actors = <<>> /\ index = 1
      /\ slots = [l \in Lanes |-> [s \in Pool |-> EmptySlot]]
  BY DEF Init
<1>4. slots \in [Lanes -> [Pool -> SlotType]] /\ \A l \in Lanes, s \in Pool : SlotOK(slots[l][s])
  <2> HIDE DEF EmptySlot
  <2> QED
    BY <1>1, <1>3
<1>5. Typed
  <2>1. opc \in [Lanes -> OwnerSteps] /\ apc \in [Lanes -> ActorSteps]
    BY <1>3 DEF OwnerSteps, ActorSteps
  <2>2. own \in [Lanes -> Commands] /\ cmd \in [Lanes -> Commands]
    BY <1>2, <1>3
  <2>3. mail \in [Lanes -> Seq(Entries)] /\ incoming \in Seq(Queued) /\ actors \in Seq(Lanes)
    BY <1>3, SMTT(40)
  <2>4. requests \in 0..MaxRequests /\ index \in Nat
    BY <1>3, LaneAssumption, SMTT(40)
  <2> QED
    BY <1>4, <2>1, <2>2, <2>3, <2>4 DEF Typed
<1>6. \A l \in Lanes : HeldOK(l)
  <2> SUFFICES ASSUME NEW l \in Lanes PROVE HeldOK(l)
    OBVIOUS
  <2>1. ~InHand(l) /\ ~Running(l) /\ DOMAIN mail[l] = {}
    BY <1>3, SMTT(40) DEF InHand, Running
  <2> QED
    BY <2>1 DEF HeldOK
<1>7. \A l \in Lanes : ActorOK(l)
  BY <1>3 DEF ActorOK
<1> QED
  BY <1>4, <1>5, <1>6, <1>7 DEF Inv

\* Every step of owners, completion handlers, reactor and network preserves Inv.
LEMMA NextInv ==
    Inv /\ [Next]_vars => Inv'
<1> SUFFICES ASSUME Inv, [Next]_vars PROVE Inv'
  OBVIOUS
<1>1. CASE UNCHANGED vars
  <2>1. /\ slots' = slots /\ mail' = mail /\ cmd' = cmd /\ apc' = apc /\ requests' = requests
        /\ own' = own /\ opc' = opc /\ incoming' = incoming /\ actors' = actors
        /\ index' = index /\ dpc' = dpc
    BY <1>1 DEF vars, rootVars, reactorVars, laneVars, ownerVars, bounds
  <2>2. /\ \A l \in Lanes : InHand(l)' => InHand(l) /\ own'[l] = own[l]
        /\ \A l \in Lanes : apc[l] = "replied" => Polled(l)'
    BY <2>1 DEF InHand, Inv, ActorOK, Polled
  <2>3. /\ own \in [Lanes -> Commands] /\ opc \in [Lanes -> OwnerSteps]
        /\ incoming \in Seq(Queued) /\ actors \in Seq(Lanes) /\ index \in Nat
    BY DEF Inv, Typed
  <2> QED
    BY <2>1, <2>2, <2>3, QuietStep
<1>2. CASE Reactor
  <2>1. CASE \E l \in Lanes : PollActor(l)
    BY <2>1, ReactorQuiet, RecvCommandInv, RunReplyInv, RunEndInv DEF PollActor
  <2>2. CASE Discard
    BY <2>2, DiscardsInv
  <2>3. CASE DropActors
    BY <2>3, ActorLostInv
  <2> QED
    BY <1>2, <2>1, <2>2, <2>3, ReactorQuiet DEF Reactor
<1>3. ASSUME NEW l \in Lanes, Register(l) PROVE Inv'
  BY <1>3, OwnerQuiet, DiscardsInv DEF Register
<1>4. ASSUME NEW l \in Lanes, Send(l) PROVE Inv'
  BY <1>4, OwnerQuiet, DiscardsInv, SendCheckInv, SendReserveInv, SendPublishInv DEF Send
<1>5. ASSUME NEW l \in Lanes, Complete(l) \/ Abandon(l) PROVE Inv'
  BY <1>5, CompleteInv DEF Complete
<1>6. CASE DriverDrop
  BY <1>6, ReactorQuiet
<1>7. ASSUME NEW l \in Lanes,
             NetworkAnswers(l) \/ Fire(l) \/ PrepFails(l) \/ DropLane(l) \/ Panic(l)
      PROVE  Inv'
  BY <1>7, NetworkAnswersInv, FireInv, PrepFailsInv, OwnerQuiet, ActorLostInv
<1> QED
  BY <1>1, <1>2, <1>3, <1>4, <1>5, <1>6, <1>7 DEF Next

\* What Inv says of each slot contains the three properties.
LEMMA InvImplies ==
    Inv => OwnReply /\ Answerable /\ TimingStable
<1> SUFFICES ASSUME Inv PROVE OwnReply /\ Answerable /\ TimingStable
  OBVIOUS
<1>1. \A l \in Lanes, s \in Pool : SlotOK(slots[l][s])
  BY DEF Inv
<1>2. OwnReply
  BY <1>1, SMTT(40) DEF SlotOK, OwnReply
<1>3. Answerable
  BY <1>1 DEF SlotOK, Answerable
<1>4. TimingStable
  BY <1>1 DEF SlotOK, TimingStable
<1> QED
  BY <1>2, <1>3, <1>4

\* A receiver only ever finds the reply to its own request, however sends,
\* panics, discards and shutdown interleave and however often a slot is reused
\* (Pool::checkout).
THEOREM RepliesAreOwn == Spec => []OwnReply
<1>1. Inv => OwnReply
  BY InvImplies
<1> QED
  BY InitInv, NextInv, <1>1, PTL DEF Spec

\* No receiver is left without its Sender and without a reply: a command that
\* is run, rejected, discarded or dropped has answered (Drop for Sender).
THEOREM RepliesAreNotLost == Spec => []Answerable
<1>1. Inv => Answerable
  BY InvImplies
<1> QED
  BY InitInv, NextInv, <1>1, PTL DEF Spec

\* The timing metadata is never reset under a reader or a writer of an earlier
\* request (the strong counts that Pool::checkout compares).
THEOREM TimingIsStable == Spec => []TimingStable
<1>1. Inv => TimingStable
  BY InvImplies
<1> QED
  BY InitInv, NextInv, <1>1, PTL DEF Spec

-----------------------------------------------------------------------------
(* The phases of the root, and the steps of owners and of the reactor *)

\* The steps of an owner's thread, of its completion handlers and of the network.
OwnerStep(l) ==
    \/ Register(l) \/ Send(l) \/ Complete(l) \/ NetworkAnswers(l)
    \/ Fire(l) \/ PrepFails(l) \/ DropLane(l) \/ Abandon(l)

\* The steps of the reactor's thread.
ReactorStep == Reactor \/ DriverDrop \/ \E l \in Lanes : Panic(l)

\* An owner leaves the reactor alone: it reads its progress but never moves it.
LEMMA OwnerFrame ==
    ASSUME NEW l \in Lanes, OwnerStep(l)
    PROVE  /\ alive' = alive /\ actors' = actors /\ dpc' = dpc /\ index' = index
           /\ closing' = closing /\ served' = served /\ resident' = resident
           /\ yield_next' = yield_next
<1>1. CASE Register(l)
  BY <1>1 DEF Register, RegisterReserve, RegisterPush, RegisterUnreserve, RegisterPublish,
     RegisterRecheck, RegisterDrain, RegisterWake, DropInbox, DiscardInbox, rootVars,
     reactorVars, bounds, laneVars
<1>2. CASE Send(l)
  BY <1>2 DEF Send, SendCheck, SendReserve, SendPublish, SendRecheck, SendDiscard, SendWake,
     DropLaneWake, rootVars, reactorVars, bounds, laneVars
<1>3. CASE Complete(l) \/ NetworkAnswers(l)
  BY <1>3 DEF Complete, TakeReply, ReadTiming, NetworkAnswers, rootVars, reactorVars, bounds,
     laneVars
<1>4. CASE Fire(l) \/ PrepFails(l) \/ DropLane(l) \/ Abandon(l)
  BY <1>4 DEF Fire, PrepFails, DropLane, Abandon, rootVars, reactorVars, laneVars
<1> QED
  BY <1>1, <1>2, <1>3, <1>4 DEF OwnerStep

\* Outside of the reservation an owner neither leaves nor enters a registration.
LEMMA Elsewhere ==
    ASSUME NEW l \in Lanes, OwnerStep(l), ~RegisterReserve(l), ~RegisterPush(l),
           ~RegisterUnreserve(l)
    PROVE  \/ opc' = opc
           \/ /\ opc[l] \notin {"new", "push", "unreserve"}
              /\ \E pc \in OwnerSteps \ {"new", "push", "unreserve"} : opc' = [opc EXCEPT ![l] = pc]
<1>1. CASE Register(l)
  BY <1>1 DEF Register, RegisterPublish, RegisterRecheck, RegisterDrain, RegisterWake, DropInbox,
     DiscardInbox, DiscardTurn, GoTo, OwnerSteps
<1>2. CASE Send(l)
  BY <1>2 DEF Send, SendCheck, SendReserve, SendPublish, SendRecheck, SendDiscard, SendWake,
     DropLaneWake, DiscardTurn, Reject, GoTo, OwnerSteps
<1>3. CASE ~Register(l) /\ ~Send(l)
  BY <1>3 DEF OwnerStep, Complete, TakeReply, ReadTiming, NetworkAnswers, Fire, PrepFails,
     DropLane, Abandon, ownerVars, GoTo, OwnerSteps
<1> QED
  BY <1>1, <1>2, <1>3

\* The reactor leaves the owners alone.
LEMMA ReactorFrame ==
    ASSUME ReactorStep
    PROVE  opc' = opc /\ own' = own /\ target' = target /\ resident' = resident
<1>1. CASE \E l \in Lanes : PollActor(l)
  BY <1>1 DEF PollActor, RecvYield, RecvCommand, RecvEmpty, RunPending, RunReply, RunEnd,
     ownerVars, bounds
<1>2. CASE PollBegin \/ PollIncoming \/ PollEnd \/ CloseInbox \/ Discard \/ Retire
  BY <1>2 DEF PollBegin, PollIncoming, PollEnd, CloseInbox, Discard, Retire, ownerVars, bounds
<1>3. CASE DropIncoming \/ DropActors \/ DriverDrop \/ \E l \in Lanes : Panic(l)
  BY <1>3 DEF DropIncoming, DropActors, DriverDrop, Panic, ownerVars, bounds
<1> QED
  BY <1>1, <1>2, <1>3 DEF ReactorStep, Reactor

-----------------------------------------------------------------------------
(* The phases of the root *)

Teardown == {"drop_incoming", "drop_actors"}
Dropping == {"drain", "drop_inbox", "discard_inbox"}

\* The Driver is being dropped, or is gone.
Ending == dpc \in Teardown \union {"dead"} \/ closing.then \in Teardown

\* An inbox is dropped on behalf of the polled actor or of the Driver's end;
\* whoever drops actors of the root has seen that it is not alive.
Phases ==
    /\ index \in Nat \ {0}
    /\ dpc \in {"close", "discard"} =>
         closing \in [lane : Lanes, then : {"retire"} \union Teardown]
    /\ dpc \notin {"close", "discard"} => closing = NoInbox
    /\ Ending => ~alive /\ served = {}
    /\ dpc \in {"unpolled", "idle", "incoming"} => served = {}
    /\ dpc = "retire" \/ closing.then = "retire" => index <= Len(actors)
    /\ target \in [Lanes -> Lanes \union {None}]
    /\ \A l \in Lanes : opc[l] \in Dropping => ~alive
    /\ \A l \in Lanes : opc[l] \in {"drop_inbox", "discard_inbox"} => target[l] \in Lanes

LEMMA PhasesInit ==
    Init => Phases
<1> SUFFICES ASSUME Init PROVE Phases
  OBVIOUS
<1>1. /\ index = 1 /\ dpc = "unpolled" /\ closing = NoInbox /\ served = {}
      /\ target = [l \in Lanes |-> None] /\ opc = [l \in Lanes |-> "new"]
  BY DEF Init
<1>2. index \in Nat \ {0}
  BY <1>1, SMTT(40)
<1>3. closing.then = "idle"
  BY <1>1 DEF NoInbox
<1>4. ~Ending /\ \A l \in Lanes : opc[l] = "new"
  BY <1>1, <1>3 DEF Ending, Teardown
<1>5. target \in [Lanes -> Lanes \union {None}]
  BY <1>1
<1> QED
  BY <1>1, <1>2, <1>3, <1>4, <1>5 DEF Phases, Dropping

\* An owner drops the actors that are queued only once it saw the root stopped.
LEMMA OwnerPhases ==
    ASSUME Inv, Phases, NEW l \in Lanes, OwnerStep(l) PROVE Phases'
<1>t. opc \in [Lanes -> OwnerSteps] /\ target \in [Lanes -> Lanes \union {None}]
      /\ incoming \in Seq(Queued)
  BY DEF Inv, Typed, Phases
<1>1. /\ alive' = alive /\ actors' = actors /\ dpc' = dpc /\ index' = index
      /\ closing' = closing /\ served' = served
  BY OwnerFrame
<1>2. CASE RegisterRecheck(l)
  <2>1. /\ opc' = [opc EXCEPT ![l] = IF alive THEN "bound" ELSE "drain"] /\ target' = target
    BY <1>2 DEF RegisterRecheck, GoTo
  <2>2. \A k \in Lanes : opc'[k] \in Dropping => opc[k] \in Dropping \/ ~alive
    BY <1>t, <2>1 DEF Dropping
  <2>3. \A k \in Lanes : opc'[k] \in {"drop_inbox", "discard_inbox"} => opc'[k] = opc[k]
    BY <1>t, <2>1
  <2> QED
    BY <1>1, <2>1, <2>2, <2>3 DEF Phases, Ending
<1>3. CASE RegisterDrain(l)
  <2>1. opc[l] = "drain" /\ ~alive
    BY <1>3 DEF RegisterDrain, Phases, Dropping
  <2>2. CASE HeadReady(incoming) /\ target' = [target EXCEPT ![l] = Head(incoming).lane]
             /\ opc' = [opc EXCEPT ![l] = "drop_inbox"]
    <3>1. Head(incoming) \in Queued
      BY <1>t, <2>2, QueueFacts DEF HeadReady
    <3>2. Head(incoming).lane \in Lanes
      BY <3>1 DEF Queued
    <3>3. target' \in [Lanes -> Lanes \union {None}] /\ target'[l] \in Lanes
      BY <1>t, <2>2, <3>2
    <3>4. \A k \in Lanes : k # l => opc'[k] = opc[k] /\ target'[k] = target[k]
      BY <1>t, <2>2
    <3> QED
      BY <1>1, <2>1, <3>3, <3>4 DEF Phases, Ending
  <2>3. CASE target' = target /\ opc' = [opc EXCEPT ![l] = "refused"]
    <3>1. \A k \in Lanes : opc'[k] = opc[k] \/ opc'[k] = "refused"
      BY <1>t, <2>3
    <3> QED
      BY <1>1, <2>1, <2>3, <3>1 DEF Phases, Ending
  <2> QED
    BY <1>3, <2>2, <2>3 DEF RegisterDrain, GoTo
<1>4. CASE DiscardInbox(l)
  <2>1. opc[l] = "discard_inbox" /\ ~alive /\ target[l] \in Lanes
    BY <1>4 DEF DiscardInbox, Phases, Dropping
  <2>2. CASE UNCHANGED <<opc, target>>
    BY <1>1, <2>2 DEF Phases, Ending
  <2>3. CASE opc' = [opc EXCEPT ![l] = "drain"] /\ target' = [target EXCEPT ![l] = None]
    <3>1. \A k \in Lanes : k # l => opc'[k] = opc[k] /\ target'[k] = target[k]
      BY <1>t, <2>3
    <3>2. opc'[l] = "drain" /\ target' \in [Lanes -> Lanes \union {None}]
      BY <1>t, <2>3
    <3> QED
      BY <1>1, <2>1, <3>1, <3>2 DEF Phases, Ending
  <2> QED
    BY <1>4, <2>2, <2>3 DEF DiscardInbox, DiscardTurn, GoTo
<1>5. CASE DropInbox(l)
  <2>1. /\ opc[l] = "drop_inbox" /\ ~alive /\ target' = target
        /\ opc' = [opc EXCEPT ![l] = "discard_inbox"]
    BY <1>5 DEF DropInbox, Phases, Dropping, GoTo
  <2>2. \A k \in Lanes : k # l => opc'[k] = opc[k]
    BY <1>t, <2>1
  <2> QED
    BY <1>1, <2>1, <2>2 DEF Phases, Ending
<1>6. CASE ~(RegisterRecheck(l) \/ RegisterDrain(l) \/ DiscardInbox(l) \/ DropInbox(l))
  <2>1. target' = target
    BY <1>6 DEF OwnerStep, Register, RegisterReserve, RegisterPush, RegisterUnreserve,
       RegisterPublish, RegisterWake, Send, SendCheck, SendReserve, SendPublish, SendRecheck,
       SendDiscard, SendWake, DropLaneWake, Complete, TakeReply, ReadTiming, NetworkAnswers,
       Fire, PrepFails, DropLane, Abandon, ownerVars
  <2>2. opc' = opc \/ \E pc \in OwnerSteps \ Dropping : opc' = [opc EXCEPT ![l] = pc]
    <3>1. CASE RegisterReserve(l) \/ RegisterPush(l) \/ RegisterUnreserve(l)
               \/ RegisterPublish(l) \/ RegisterWake(l)
      BY <3>1 DEF RegisterReserve, RegisterPush, RegisterUnreserve, RegisterPublish,
         RegisterWake, GoTo, OwnerSteps, Dropping
    <3>2. CASE Send(l)
      BY <3>2 DEF Send, SendCheck, SendReserve, SendPublish, SendRecheck, SendDiscard,
         SendWake, DropLaneWake, DiscardTurn, Reject, GoTo, OwnerSteps, Dropping
    <3>3. CASE Complete(l) \/ NetworkAnswers(l) \/ Fire(l) \/ PrepFails(l) \/ DropLane(l)
               \/ Abandon(l)
      BY <3>3 DEF Complete, TakeReply, ReadTiming, NetworkAnswers, Fire, PrepFails, DropLane,
         Abandon, ownerVars, GoTo, OwnerSteps, Dropping
    <3> QED
      BY <1>6, <3>1, <3>2, <3>3 DEF OwnerStep, Register
  <2>3. \A k \in Lanes : opc'[k] = opc[k] \/ opc'[k] \notin Dropping
    BY <1>t, <2>2
  <2> QED
    BY <1>1, <2>1, <2>3 DEF Phases, Ending, Dropping
<1> QED
  BY <1>2, <1>3, <1>4, <1>5, <1>6

\* The reactor drops actors of the root after it said so, and retires the actor
\* it is polling.
LEMMA ReactorPhases ==
    ASSUME Inv, Phases, ReactorStep PROVE Phases'
<1>t. /\ index \in Nat \ {0} /\ actors \in Seq(Lanes) /\ incoming \in Seq(Queued)
      /\ (dpc \notin {"close", "discard"} => closing = NoInbox)
      /\ NoInbox.then = "idle"
  BY DEF Inv, Typed, Phases, NoInbox
<1>1. opc' = opc /\ target' = target
  BY ReactorFrame
<1>n. index + 1 \in Nat \ {0} /\ 1 \in Nat \ {0} /\ Len(actors) \in Nat
  BY <1>t, SMTT(40)
<1>2. CASE PollBegin \/ PollIncoming \/ PollEnd
  <2>1. /\ dpc \in {"unpolled", "idle", "incoming", "actors"} /\ alive' = alive
        /\ dpc' \in {"incoming", "actors", "idle"} /\ closing' = closing
        /\ (dpc' # "actors" => served' = {}) /\ index' \in {index, 1}
    BY <1>2 DEF PollBegin, PollIncoming, PollEnd, Phases, rootVars
  <2>2. closing' = NoInbox /\ ~Ending'
    BY <1>t, <2>1 DEF Ending, Teardown
  <2> QED
    BY <1>t, <1>n, <1>1, <2>1, <2>2 DEF Phases
<1>3. CASE \E l \in Lanes : RecvYield(l) \/ RecvCommand(l) \/ RunPending(l) \/ RunReply(l) \/ RunEnd(l)
  <2>1. /\ dpc = "actors" /\ dpc' = dpc /\ alive' = alive /\ actors' = actors
        /\ closing' = closing /\ index' \in {index, index + 1}
    BY <1>3 DEF RecvYield, RecvCommand, RunPending, RunReply, RunEnd, Polled, rootVars,
       reactorVars
  <2>2. closing' = NoInbox /\ ~Ending'
    BY <1>t, <2>1 DEF Ending, Teardown
  <2> QED
    BY <1>t, <1>n, <1>1, <2>1, <2>2 DEF Phases
<1>4. ASSUME NEW l \in Lanes, RecvEmpty(l) \/ Panic(l) PROVE Phases'
  <2>1. /\ dpc = "actors" /\ alive' = alive /\ actors' = actors /\ served' = served
        /\ index <= Len(actors)
    BY <1>4 DEF RecvEmpty, Panic, Polled, rootVars
  <2>2. CASE dpc' = dpc /\ closing' = closing /\ index' = index + 1
    <3>1. closing' = NoInbox /\ ~Ending'
      BY <1>t, <2>1, <2>2 DEF Ending, Teardown
    <3> QED
      BY <1>t, <1>n, <1>1, <2>1, <2>2, <3>1 DEF Phases
  <2>3. CASE dpc' = "close" /\ closing' = [lane |-> l, then |-> "retire"] /\ index' = index
    <3>1. /\ closing' \in [lane : Lanes, then : {"retire"} \union Teardown]
          /\ closing'.then = "retire" /\ ~Ending'
      BY <2>3 DEF Ending, Teardown
    <3> QED
      BY <1>t, <1>1, <2>1, <2>3, <3>1 DEF Phases
  <2> QED
    BY <1>4, <2>2, <2>3 DEF RecvEmpty, Panic, Closing
<1>5. CASE CloseInbox
  <2>1. /\ dpc = "close" /\ dpc' = "discard" /\ closing' = closing /\ alive' = alive
        /\ actors' = actors /\ index' = index /\ served' = served
    BY <1>5 DEF CloseInbox, rootVars
  <2> QED
    BY <1>1, <2>1 DEF Phases, Ending, Teardown
<1>6. CASE Discard
  <2>1. /\ dpc = "discard" /\ alive' = alive /\ actors' = actors /\ index' = index
        /\ served' = served
    BY <1>6 DEF Discard, rootVars
  <2>2. CASE dpc' = dpc /\ closing' = closing
    BY <1>1, <2>1, <2>2 DEF Phases, Ending, Teardown
  <2>3. CASE dpc' = closing.then /\ closing' = NoInbox
    <3>1. closing.then \in {"retire"} \union Teardown
      BY <2>1 DEF Phases
    <3>2. dpc' \in {"retire", "drop_incoming", "drop_actors"}
      BY <2>3, <3>1 DEF Teardown
    <3>3. Ending' => Ending
      BY <1>t, <2>3, <3>1, <3>2 DEF Ending, Teardown
    <3> QED
      BY <1>t, <1>1, <2>1, <2>3, <3>2, <3>3 DEF Phases
  <2> QED
    BY <1>6, <2>2, <2>3 DEF Discard, DiscardTurn
<1>7. CASE Retire
  <2>1. /\ dpc = "retire" /\ dpc' = "actors" /\ closing' = closing /\ alive' = alive
        /\ index' = index
    BY <1>7 DEF Retire
  <2>2. closing' = NoInbox /\ ~Ending'
    BY <1>t, <2>1 DEF Ending, Teardown
  <2> QED
    BY <1>t, <1>1, <2>1, <2>2 DEF Phases
<1>8. CASE DriverDrop
  <2>1. /\ dpc \in {"unpolled", "idle"} /\ ~alive' /\ dpc' = "drop_incoming"
        /\ closing' = closing /\ index' = index /\ served' = served
    BY <1>8 DEF DriverDrop
  <2> QED
    BY <1>t, <1>1, <2>1 DEF Phases
<1>9. CASE DropIncoming \/ DropActors
  <2>1. dpc \in Teardown /\ alive' = alive /\ index' = index /\ served' = served
    BY <1>9 DEF DropIncoming, DropActors, Teardown
  <2>2. ~alive' /\ served' = {}
    BY <2>1 DEF Phases, Ending
  <2>3. CASE dpc' \in {"drop_actors", "dead"} /\ closing' = closing
    BY <1>t, <1>1, <2>1, <2>2, <2>3 DEF Phases, Teardown
  <2>4. ASSUME NEW l \in Lanes, NEW then \in Teardown,
               dpc' = "close", closing' = [lane |-> l, then |-> then]
        PROVE  Phases'
    <3>1. closing' \in [lane : Lanes, then : {"retire"} \union Teardown] /\ closing'.then # "retire"
      BY <2>4 DEF Teardown
    <3> QED
      BY <1>t, <1>1, <2>1, <2>2, <2>4, <3>1 DEF Phases
  <2>5. CASE DropIncoming /\ HeadReady(incoming) /\ dpc' = "close"
    <3>0. Head(incoming) \in Queued
      BY <1>t, <2>5, QueueFacts DEF HeadReady
    <3>1. Head(incoming).lane \in Lanes
      BY <3>0 DEF Queued
    <3>2. closing' = [lane |-> Head(incoming).lane, then |-> "drop_incoming"]
      BY <2>5 DEF DropIncoming, Closing
    <3> QED
      BY <2>4, <2>5, <3>1, <3>2 DEF Teardown
  <2>6. CASE DropActors /\ actors # <<>>
    <3>1. Head(actors) \in Lanes
      BY <1>t, <2>6, QueueFacts
    <3>2. closing' = [lane |-> Head(actors), then |-> "drop_actors"] /\ dpc' = "close"
      BY <2>6 DEF DropActors, Closing
    <3> QED
      BY <2>4, <3>1, <3>2 DEF Teardown
  <2> QED
    BY <1>9, <2>3, <2>5, <2>6 DEF DropIncoming, DropActors
<1> QED
  BY <1>2, <1>3, <1>4, <1>5, <1>6, <1>7, <1>8, <1>9 DEF ReactorStep, Reactor, PollActor

LEMMA PhasesNext ==
    ASSUME Inv, Phases, [Next]_vars PROVE Phases'
<1>1. CASE UNCHANGED vars
  BY <1>1 DEF vars, rootVars, reactorVars, ownerVars, Phases, Ending
<1>2. Next => ReactorStep \/ \E l \in Lanes : OwnerStep(l)
  BY DEF Next, ReactorStep, OwnerStep
<1> QED
  BY <1>1, <1>2, OwnerPhases, ReactorPhases

-----------------------------------------------------------------------------
(* The queue of registered actors *)

\* Where an owner has yet to look at the queue of actors again.
Looking == {"publish", "recheck", "drain", "drop_inbox", "discard_inbox"}

\* The Driver's end is past its look at the queue of actors.
PastIncoming == dpc \in {"drop_actors", "dead"} \/ closing.then = "drop_actors"

\* An entry that is not published has its owner before the publication, and a
\* queue the Driver will not look at again has an owner that will.
IncomingOK ==
    /\ \A i \in DOMAIN incoming : ~incoming[i].ready => opc[incoming[i].lane] = "publish"
    /\ PastIncoming => incoming = <<>> \/ \E l \in Lanes : opc[l] \in Looking

\* Head, Tail and Append by index.
LEMMA Shift ==
    ASSUME NEW S, NEW q \in Seq(S), q # <<>>
    PROVE  /\ 1 \in DOMAIN q /\ Head(q) = q[1] /\ Tail(q) \in Seq(S)
           /\ Len(q) \in Nat /\ Len(Tail(q)) = Len(q) - 1
           /\ \A i \in DOMAIN Tail(q) :
                i \in Nat /\ i + 1 \in DOMAIN q /\ Tail(q)[i] = q[i + 1]
  BY SMTT(40)

LEMMA Extend ==
    ASSUME NEW S, NEW q \in Seq(S), NEW e \in S
    PROVE  /\ Append(q, e) \in Seq(S) /\ Append(q, e) # <<>>
           /\ \A i \in DOMAIN Append(q, e) :
                \/ i \in DOMAIN q /\ Append(q, e)[i] = q[i]
                \/ i = Len(Append(q, e)) /\ Append(q, e)[i] = e /\ i \notin DOMAIN q
  BY SMTT(40)

LEMMA IncomingInit ==
    Init => IncomingOK
<1> SUFFICES ASSUME Init PROVE IncomingOK
  OBVIOUS
<1>1. incoming = <<>>
  BY DEF Init
<1>2. DOMAIN incoming = {}
  BY <1>1, SMTT(40)
<1> QED
  BY <1>1, <1>2 DEF IncomingOK

\* Taking the head keeps what is said of each entry.
LEMMA IncomingTail ==
    ASSUME Inv, IncomingOK, HeadReady(incoming), incoming' = Tail(incoming),
           NEW l \in Lanes, opc[l] # "publish" \/ opc' = opc,
           opc' = opc \/ \E pc \in OwnerSteps : opc' = [opc EXCEPT ![l] = pc]
    PROVE  \A i \in DOMAIN incoming' : ~incoming'[i].ready => opc'[incoming'[i].lane] = "publish"
<1>1. incoming \in Seq(Queued) /\ incoming # <<>> /\ opc \in [Lanes -> OwnerSteps]
  BY DEF Inv, Typed, HeadReady
<1> SUFFICES ASSUME NEW i \in DOMAIN incoming', ~incoming'[i].ready
             PROVE  opc'[incoming'[i].lane] = "publish"
  OBVIOUS
<1>2. i + 1 \in DOMAIN incoming /\ incoming'[i] = incoming[i + 1]
  BY <1>1, Shift
<1>3. opc[incoming[i + 1].lane] = "publish"
  BY <1>2 DEF IncomingOK
<1>4. incoming[i + 1] \in Queued
  BY <1>1, <1>2, SMTT(40)
<1>5. incoming[i + 1].lane \in Lanes
  BY <1>4 DEF Queued
<1> QED
  BY <1>1, <1>2, <1>3, <1>5

\* A head that is not published keeps its owner looking.
LEMMA UnreadyHead ==
    ASSUME Inv, IncomingOK, ~HeadReady(incoming), incoming # <<>>
    PROVE  \E k \in Lanes : opc[k] = "publish"
<1>1. incoming \in Seq(Queued)
  BY DEF Inv, Typed
<1>2. 1 \in DOMAIN incoming /\ Head(incoming) = incoming[1] /\ Head(incoming) \in Queued
  BY <1>1, Shift, QueueFacts
<1>3. opc[incoming[1].lane] = "publish"
  BY <1>2 DEF IncomingOK, HeadReady
<1>4. incoming[1].lane \in Lanes
  BY <1>2 DEF Queued
<1> QED
  BY <1>3, <1>4

\* An owner that stops looking has found the queue empty, or leaves another owner.
LEMMA OwnerIncoming ==
    ASSUME Inv, Phases, IncomingOK, NEW l \in Lanes, OwnerStep(l) PROVE IncomingOK'
<1>t. /\ opc \in [Lanes -> OwnerSteps] /\ incoming \in Seq(Queued)
      /\ \A i \in DOMAIN incoming : incoming[i] \in Queued
  <2>1. opc \in [Lanes -> OwnerSteps] /\ incoming \in Seq(Queued)
    BY DEF Inv, Typed
  <2> QED
    BY <2>1, SMTT(40)
<1>l. \A i \in DOMAIN incoming : incoming[i].lane \in Lanes
  BY <1>t DEF Queued
<1>1. PastIncoming' = PastIncoming /\ (PastIncoming => ~alive /\ dpc # "drop_incoming")
  <2>1. dpc' = dpc /\ closing' = closing
    BY OwnerFrame
  <2>2. NoInbox.then = "idle"
    BY DEF NoInbox
  <2>3. PastIncoming => Ending
    BY DEF PastIncoming, Ending, Teardown
  <2> QED
    BY <2>1, <2>2, <2>3 DEF PastIncoming, Phases
<1>2. CASE RegisterPush(l)
  <2>1. opc[l] = "push"
    BY <1>2 DEF RegisterPush
  <2>2. CASE incoming' = Append(incoming, [lane |-> l, ready |-> FALSE])
             /\ opc' = [opc EXCEPT ![l] = "publish"]
    <3> DEFINE e == [lane |-> l, ready |-> FALSE]
    <3>1. e \in Queued /\ e.lane = l /\ incoming' = Append(incoming, e)
      BY <2>2 DEF Queued
    <3> HIDE DEF e
    <3>2. opc'[l] = "publish" /\ \A k \in Lanes : opc[k] = "publish" => opc'[k] = "publish"
      BY <1>t, <2>2
    <3>3. ASSUME NEW i \in DOMAIN incoming', ~incoming'[i].ready
          PROVE  opc'[incoming'[i].lane] = "publish"
      <4>1. (i \in DOMAIN incoming /\ incoming'[i] = incoming[i]) \/ incoming'[i] = e
        BY <1>t, <3>1, <3>3, SMTT(40)
      <4>2. CASE i \in DOMAIN incoming /\ incoming'[i] = incoming[i]
        BY <1>l, <3>2, <3>3, <4>2 DEF IncomingOK
      <4>3. CASE incoming'[i] = e
        BY <3>1, <3>2, <4>3
      <4> QED
        BY <4>1, <4>2, <4>3
    <3> QED
      BY <3>2, <3>3 DEF IncomingOK, Looking
  <2>3. CASE incoming' = incoming /\ opc' = [opc EXCEPT ![l] = "unreserve"]
    <3>1. \A k \in Lanes : k # l => opc'[k] = opc[k]
      BY <1>t, <2>3
    <3> QED
      BY <1>1, <1>l, <2>1, <2>3, <3>1 DEF IncomingOK, Looking
  <2> QED
    BY <1>2, <2>2, <2>3 DEF RegisterPush, GoTo
<1>3. CASE RegisterPublish(l)
  <2>1. /\ incoming' = [i \in DOMAIN incoming |->
                          IF incoming[i].lane = l THEN [incoming[i] EXCEPT !.ready = TRUE]
                                                  ELSE incoming[i]]
        /\ opc' = [opc EXCEPT ![l] = "recheck"]
    BY <1>3 DEF RegisterPublish, GoTo
  <2>2. opc'[l] = "recheck" /\ \A k \in Lanes : k # l => opc'[k] = opc[k]
    BY <1>t, <2>1
  <2>3. ASSUME NEW i \in DOMAIN incoming', ~incoming'[i].ready
        PROVE  opc'[incoming'[i].lane] = "publish"
    <3>1. i \in DOMAIN incoming
      BY <2>1, <2>3
    <3>2. CASE incoming[i].lane = l
      <4>1. incoming'[i] = [incoming[i] EXCEPT !.ready = TRUE] /\ incoming[i] \in Queued
        BY <1>t, <2>1, <3>1, <3>2
      <4>2. incoming'[i].ready
        BY <4>1 DEF Queued
      <4> QED
        BY <2>3, <4>2
    <3>3. CASE incoming[i].lane # l
      <4>1. incoming'[i] = incoming[i]
        BY <2>1, <3>1, <3>3
      <4> QED
        BY <1>l, <2>2, <2>3, <3>1, <3>3, <4>1 DEF IncomingOK
    <3> QED
      BY <3>2, <3>3
  <2> QED
    BY <2>2, <2>3 DEF IncomingOK, Looking
<1>4. CASE RegisterDrain(l)
  <2>1. opc[l] = "drain"
    BY <1>4 DEF RegisterDrain
  <2>2. CASE HeadReady(incoming) /\ incoming' = Tail(incoming)
             /\ opc' = [opc EXCEPT ![l] = "drop_inbox"]
    <3>1. "drop_inbox" \in OwnerSteps /\ opc'[l] = "drop_inbox"
      BY <1>t, <2>2 DEF OwnerSteps
    <3> QED
      BY <2>1, <2>2, <3>1, IncomingTail DEF IncomingOK, Looking
  <2>3. CASE /\ \/ ~HeadReady(incoming) \/ dpc = "drop_incoming"
                \/ \E k \in Lanes \ {l} : opc[k] = "drain"
             /\ incoming' = incoming /\ opc' = [opc EXCEPT ![l] = "refused"]
    <3>1. \A k \in Lanes : k # l => opc'[k] = opc[k]
      BY <1>t, <2>3
    <3>2. PastIncoming => incoming = <<>> \/ \E k \in Lanes \ {l} : opc[k] \in Looking
      BY <1>1, <2>1, <2>3, UnreadyHead DEF Looking
    <3> QED
      BY <1>1, <1>l, <2>1, <2>3, <3>1, <3>2 DEF IncomingOK
  <2> QED
    BY <1>4, <2>2, <2>3 DEF RegisterDrain, GoTo
<1>5. CASE RegisterRecheck(l)
  <2>1. /\ opc[l] = "recheck" /\ incoming' = incoming
        /\ opc' = [opc EXCEPT ![l] = IF alive THEN "bound" ELSE "drain"]
    BY <1>5 DEF RegisterRecheck, GoTo, rootVars
  <2>2. \A k \in Lanes : k # l => opc'[k] = opc[k]
    BY <1>t, <2>1
  <2>3. ~alive => opc'[l] = "drain"
    BY <1>t, <2>1
  <2> QED
    BY <1>1, <1>l, <2>1, <2>2, <2>3 DEF IncomingOK, Looking
<1>6. CASE ~(RegisterPush(l) \/ RegisterPublish(l) \/ RegisterDrain(l) \/ RegisterRecheck(l))
  <2>1. incoming' = incoming
    BY <1>6 DEF OwnerStep, Register, RegisterReserve, RegisterUnreserve, RegisterWake, DropInbox,
       DiscardInbox, Send, SendCheck, SendReserve, SendPublish, SendRecheck, SendDiscard, SendWake,
       DropLaneWake, Complete, TakeReply, ReadTiming, NetworkAnswers, Fire, PrepFails, DropLane,
       Abandon, rootVars
  <2>2. CASE DropInbox(l) \/ DiscardInbox(l)
    <3>1. /\ opc[l] \in {"drop_inbox", "discard_inbox"}
          /\ \/ opc' = opc
             \/ opc' = [opc EXCEPT ![l] = "discard_inbox"] \/ opc' = [opc EXCEPT ![l] = "drain"]
      BY <2>2 DEF DropInbox, DiscardInbox, DiscardTurn, GoTo
    <3>2. /\ \A k \in Lanes : k # l => opc'[k] = opc[k]
          /\ opc'[l] \in Looking
      BY <1>t, <3>1 DEF Looking
    <3> QED
      BY <1>l, <2>1, <3>1, <3>2 DEF IncomingOK, Looking
  <2>3. CASE ~(DropInbox(l) \/ DiscardInbox(l))
    <3>1. opc' = opc \/ (opc[l] \notin Looking /\ \E pc \in OwnerSteps : opc' = [opc EXCEPT ![l] = pc])
      <4>1. CASE Register(l)
        BY <1>6, <2>3, <4>1 DEF Register, RegisterReserve, RegisterUnreserve, RegisterWake, GoTo,
           Looking, OwnerSteps
      <4>2. CASE Send(l)
        BY <4>2 DEF Send, SendCheck, SendReserve, SendPublish, SendRecheck, SendDiscard,
           SendWake, DropLaneWake, DiscardTurn, Reject, GoTo, Looking, OwnerSteps
      <4>3. CASE ~Register(l) /\ ~Send(l)
        BY <4>3 DEF OwnerStep, Complete, TakeReply, ReadTiming, NetworkAnswers, Fire, PrepFails,
           DropLane, Abandon, ownerVars, GoTo, Looking, OwnerSteps
      <4> QED
        BY <4>1, <4>2, <4>3
    <3>2. \A k \in Lanes : opc[k] \in Looking => opc'[k] = opc[k]
      BY <1>t, <3>1
    <3> QED
      BY <1>1, <1>l, <2>1, <3>2 DEF IncomingOK, Looking
  <2> QED
    BY <2>2, <2>3
<1> QED
  BY <1>2, <1>3, <1>4, <1>5, <1>6

\* The Driver goes past the queue when it is empty or has an owner looking.
LEMMA ReactorIncoming ==
    ASSUME Inv, Phases, IncomingOK, ReactorStep PROVE IncomingOK'
<1>1. opc' = opc
  BY ReactorFrame
<1>2. CASE incoming' = Tail(incoming) /\ HeadReady(incoming) /\ ~PastIncoming'
  <2>1. PICK l \in Lanes : TRUE
    <3>1. Head(incoming) \in Queued
      BY <1>2, QueueFacts DEF HeadReady, Inv, Typed
    <3> QED
      BY <3>1 DEF Queued
  <2> QED
    BY <1>1, <1>2, <2>1, IncomingTail DEF IncomingOK
<1>3. CASE incoming' = incoming /\ (PastIncoming' => PastIncoming)
  BY <1>1, <1>3 DEF IncomingOK
<1>4. CASE /\ ~HeadReady(incoming) \/ \E l \in Lanes : opc[l] = "drain"
           /\ incoming' = incoming
  <2>1. incoming = <<>> \/ \E l \in Lanes : opc[l] \in Looking
    BY <1>4, UnreadyHead DEF Looking
  <2> QED
    BY <1>1, <1>4, <2>1 DEF IncomingOK
<1>c. dpc \notin {"close", "discard"} => closing = NoInbox
  BY DEF Phases
<1>d. dpc \in {"close", "discard"} => closing.then \in {"retire"} \union Teardown
  BY DEF Phases
<1>n. NoInbox.then = "idle"
  BY DEF NoInbox
<1>5. CASE PollIncoming
  <2>1. closing' = NoInbox /\ dpc' \in {"incoming", "actors"}
    BY <1>5, <1>c DEF PollIncoming
  <2>2. ~PastIncoming'
    BY <1>n, <2>1 DEF PastIncoming
  <2> QED
    BY <1>2, <1>3, <1>5, <2>2 DEF PollIncoming
<1>6. CASE DropIncoming
  <2>1. CASE HeadReady(incoming) /\ dpc' = "close" /\ incoming' = Tail(incoming)
             /\ closing' = [lane |-> Head(incoming).lane, then |-> "drop_incoming"]
    <3>1. ~PastIncoming'
      BY <2>1 DEF PastIncoming
    <3> QED
      BY <1>2, <2>1, <3>1
  <2> QED
    BY <1>4, <1>6, <2>1 DEF DropIncoming, Closing
<1>7. CASE DropActors
  <2>1. PastIncoming /\ incoming' = incoming
    BY <1>7 DEF DropActors, PastIncoming
  <2> QED
    BY <1>3, <2>1
<1>8. CASE Discard
  <2>1. incoming' = incoming /\ dpc = "discard"
    BY <1>8 DEF Discard, rootVars
  <2>2. CASE dpc' = dpc /\ closing' = closing
    BY <1>3, <2>1, <2>2 DEF PastIncoming
  <2>3. CASE dpc' = closing.then /\ closing' = NoInbox
    <3>1. PastIncoming' => PastIncoming
      BY <1>d, <1>n, <2>1, <2>3 DEF PastIncoming, Teardown
    <3> QED
      BY <1>3, <2>1, <3>1
  <2> QED
    BY <1>8, <2>2, <2>3 DEF Discard, DiscardTurn
<1>9. CASE CloseInbox
  <2>1. incoming' = incoming /\ dpc' = "discard" /\ closing' = closing
    BY <1>9 DEF CloseInbox, rootVars
  <2> QED
    BY <1>3, <2>1 DEF PastIncoming
<1>10. CASE PollBegin \/ PollEnd \/ Retire \/ DriverDrop
  <2>1. /\ incoming' = incoming /\ closing' = NoInbox
        /\ dpc' \in {"incoming", "idle", "actors", "drop_incoming"}
    BY <1>10, <1>c DEF PollBegin, PollEnd, Retire, DriverDrop, rootVars
  <2>2. ~PastIncoming'
    BY <1>n, <2>1 DEF PastIncoming
  <2> QED
    BY <1>3, <2>1, <2>2
<1>11. ASSUME NEW l \in Lanes, PollActor(l) \/ Panic(l) PROVE IncomingOK'
  <2>1. /\ incoming' = incoming /\ dpc = "actors"
        /\ \/ dpc' = dpc /\ closing' = closing
           \/ dpc' = "close" /\ closing' = [lane |-> l, then |-> "retire"]
    BY <1>11 DEF PollActor, RecvYield, RecvCommand, RecvEmpty, RunPending, RunReply, RunEnd,
       Panic, Polled, Closing, rootVars, reactorVars
  <2>2. closing'.then \in {"idle", "retire"}
    <3>1. CASE closing' = closing
      BY <1>c, <1>n, <2>1, <3>1
    <3>2. CASE closing' = [lane |-> l, then |-> "retire"]
      BY <3>2
    <3> QED
      BY <2>1, <3>1, <3>2
  <2>3. ~PastIncoming'
    BY <2>1, <2>2 DEF PastIncoming
  <2> QED
    BY <1>3, <2>1, <2>3
<1> QED
  BY <1>5, <1>6, <1>7, <1>8, <1>9, <1>10, <1>11 DEF ReactorStep, Reactor

LEMMA IncomingNext ==
    ASSUME Inv, Phases, IncomingOK, [Next]_vars PROVE IncomingOK'
<1>1. CASE UNCHANGED vars
  BY <1>1 DEF vars, rootVars, reactorVars, ownerVars, IncomingOK, PastIncoming
<1>2. Next => ReactorStep \/ \E l \in Lanes : OwnerStep(l)
  BY DEF Next, ReactorStep, OwnerStep
<1> QED
  BY <1>1, <1>2, OwnerIncoming, ReactorIncoming

-----------------------------------------------------------------------------
(* One actor per lane, one command per poll *)

\* Where an owner has not queued its actor yet.
Unqueued == {"new", "push"}

\* An actor is queued or held at most once, and not before its registration.
Once ==
    /\ \A i \in DOMAIN incoming : opc[incoming[i].lane] \notin Unqueued
    /\ \A i \in DOMAIN actors : opc[actors[i]] \notin Unqueued
    /\ \A i, j \in DOMAIN incoming : i # j => incoming[i].lane # incoming[j].lane
    /\ \A i, j \in DOMAIN actors : i # j => actors[i] # actors[j]
    /\ \A i \in DOMAIN incoming, j \in DOMAIN actors : incoming[i].lane # actors[j]

LEMMA OnceInit ==
    Init => Once
<1> SUFFICES ASSUME Init PROVE Once
  OBVIOUS
<1>1. incoming = <<>> /\ actors = <<>>
  BY DEF Init
<1>2. DOMAIN incoming = {} /\ DOMAIN actors = {}
  BY <1>1, SMTT(40)
<1> QED
  BY <1>2 DEF Once

\* No owner goes back to before its registration.
LEMMA OwnerUnqueued ==
    ASSUME Inv, NEW l \in Lanes, OwnerStep(l), ~RegisterPush(l), NEW k \in Lanes,
           opc'[k] \in Unqueued
    PROVE  opc[k] \in Unqueued
<1>t. opc \in [Lanes -> OwnerSteps]
  BY DEF Inv, Typed
<1>1. CASE RegisterReserve(l)
  <2>1. opc[l] = "new" /\ \E pc \in OwnerSteps : opc' = [opc EXCEPT ![l] = pc]
    BY <1>1 DEF RegisterReserve, GoTo, OwnerSteps
  <2> QED
    BY <1>t, <2>1 DEF Unqueued
<1>2. CASE RegisterUnreserve(l)
  <2>1. opc' = [opc EXCEPT ![l] = "refused"]
    BY <1>2 DEF RegisterUnreserve, GoTo
  <2> QED
    BY <1>t, <2>1 DEF Unqueued
<1>3. CASE ~RegisterReserve(l) /\ ~RegisterUnreserve(l)
  <2>1. \/ opc' = opc
        \/ \E pc \in OwnerSteps \ {"new", "push", "unreserve"} : opc' = [opc EXCEPT ![l] = pc]
    BY <1>3, Elsewhere
  <2> QED
    BY <1>t, <2>1 DEF Unqueued
<1> QED
  BY <1>1, <1>2, <1>3

\* The queued actors are the same, or one less, and no owner unregisters.
LEMMA OnceFewer ==
    ASSUME Inv, Once, actors' = actors,
           incoming' = incoming \/ (incoming' = Tail(incoming) /\ incoming # <<>>),
           \A k \in Lanes : opc'[k] \in Unqueued => opc[k] \in Unqueued
    PROVE  Once'
<1>t. incoming \in Seq(Queued) /\ actors \in Seq(Lanes)
  BY DEF Inv, Typed
<1>l. /\ \A i \in DOMAIN incoming : incoming[i] \in Queued
      /\ \A i \in DOMAIN actors : actors[i] \in Lanes
  BY <1>t, SMTT(40)
<1>m. \A i \in DOMAIN incoming : incoming[i].lane \in Lanes
  BY <1>l DEF Queued
<1>1. CASE incoming' = incoming
  <2>1. /\ \A i \in DOMAIN incoming' : opc'[incoming'[i].lane] \notin Unqueued
        /\ \A i \in DOMAIN actors' : opc'[actors'[i]] \notin Unqueued
    BY <1>1, <1>l, <1>m DEF Once
  <2>2. /\ \A i, j \in DOMAIN incoming' : i # j => incoming'[i].lane # incoming'[j].lane
        /\ \A i, j \in DOMAIN actors' : i # j => actors'[i] # actors'[j]
        /\ \A i \in DOMAIN incoming', j \in DOMAIN actors' : incoming'[i].lane # actors'[j]
    BY <1>1 DEF Once
  <2> QED
    BY <2>1, <2>2 DEF Once
<1>2. CASE incoming' = Tail(incoming) /\ incoming # <<>>
  <2>1. \A i \in DOMAIN incoming' :
          i \in Nat /\ i + 1 \in DOMAIN incoming /\ incoming'[i] = incoming[i + 1]
    BY <1>t, <1>2, Shift
  <2>2. \A i, j \in DOMAIN incoming' : i # j => i + 1 # j + 1
    BY <2>1, SMTT(40)
  <2> QED
    BY <1>l, <1>m, <2>1, <2>2, SMTT(60) DEF Once
<1> QED
  BY <1>1, <1>2

LEMMA OwnerOnce ==
    ASSUME Inv, Once, NEW l \in Lanes, OwnerStep(l) PROVE Once'
<1>t. incoming \in Seq(Queued) /\ actors \in Seq(Lanes) /\ opc \in [Lanes -> OwnerSteps]
  BY DEF Inv, Typed
<1>l. /\ \A i \in DOMAIN incoming : incoming[i] \in Queued
      /\ \A i \in DOMAIN actors : actors[i] \in Lanes
  BY <1>t, SMTT(40)
<1>m. \A i \in DOMAIN incoming : incoming[i].lane \in Lanes
  BY <1>l DEF Queued
<1>1. actors' = actors
  BY OwnerFrame
<1>2. CASE RegisterPush(l)
  <2>1. opc[l] \in Unqueued
    BY <1>2 DEF RegisterPush, Unqueued
  <2>2. CASE incoming' = incoming /\ opc' = [opc EXCEPT ![l] = "unreserve"]
    <3>1. \A k \in Lanes : opc'[k] \in Unqueued => opc[k] \in Unqueued
      BY <1>t, <2>2 DEF Unqueued
    <3> QED
      BY <1>1, <2>2, <3>1, OnceFewer
  <2>3. CASE incoming' = Append(incoming, [lane |-> l, ready |-> FALSE])
             /\ opc' = [opc EXCEPT ![l] = "publish"]
    <3> DEFINE e == [lane |-> l, ready |-> FALSE]
    <3>1. e \in Queued /\ e.lane = l /\ incoming' = Append(incoming, e)
      BY <2>3 DEF Queued
    <3> HIDE DEF e
    <3>2. opc'[l] \notin Unqueued /\ \A k \in Lanes : k # l => opc'[k] = opc[k]
      BY <1>t, <2>3 DEF Unqueued
    <3>3. \A i \in DOMAIN incoming' :
            \/ i \in DOMAIN incoming /\ incoming'[i] = incoming[i]
            \/ i = Len(incoming') /\ incoming'[i] = e /\ i \notin DOMAIN incoming
      BY <1>t, <3>1, Extend, SMTT(40)
    <3>4. \A i \in DOMAIN incoming : incoming[i].lane # l
      BY <2>1 DEF Once
    <3>5. \A i \in DOMAIN actors : actors[i] # l
      BY <2>1 DEF Once
    <3>6. \A i, j \in DOMAIN incoming' : i # j => incoming'[i].lane # incoming'[j].lane
      BY <3>1, <3>3, <3>4, SMTT(40) DEF Once
    <3>7. \A i \in DOMAIN incoming' : opc'[incoming'[i].lane] \notin Unqueued
      BY <1>m, <3>1, <3>2, <3>3, SMTT(40) DEF Once
    <3>8. \A i \in DOMAIN incoming', j \in DOMAIN actors : incoming'[i].lane # actors[j]
      BY <3>1, <3>3, <3>5, SMTT(40) DEF Once
    <3>9. \A i \in DOMAIN actors : opc'[actors[i]] \notin Unqueued
      BY <1>l, <3>2 DEF Once
    <3> QED
      BY <1>1, <3>6, <3>7, <3>8, <3>9, ZenonT(40) DEF Once
  <2> QED
    BY <1>2, <2>2, <2>3 DEF RegisterPush, GoTo
<1>3. CASE RegisterPublish(l)
  <2>1. /\ incoming' = [i \in DOMAIN incoming |->
                          IF incoming[i].lane = l THEN [incoming[i] EXCEPT !.ready = TRUE]
                                                  ELSE incoming[i]]
        /\ opc' = [opc EXCEPT ![l] = "recheck"]
    BY <1>3 DEF RegisterPublish, GoTo
  <2>2. DOMAIN incoming' = DOMAIN incoming
    BY <2>1
  <2>3. ASSUME NEW i \in DOMAIN incoming PROVE incoming'[i].lane = incoming[i].lane
    <3>1. incoming'[i] = incoming[i] \/ incoming'[i] = [incoming[i] EXCEPT !.ready = TRUE]
      BY <2>1
    <3> QED
      BY <1>l, <3>1 DEF Queued
  <2>4. \A k \in Lanes : opc'[k] \in Unqueued => opc[k] \in Unqueued
    BY <1>t, <2>1 DEF Unqueued
  <2> QED
    BY <1>1, <1>l, <1>m, <2>2, <2>3, <2>4, SMTT(40) DEF Once
<1>4. CASE ~RegisterPush(l) /\ ~RegisterPublish(l)
  <2>1. incoming' = incoming \/ (incoming' = Tail(incoming) /\ incoming # <<>>)
    BY <1>4 DEF OwnerStep, Register, RegisterReserve, RegisterUnreserve, RegisterRecheck,
       RegisterDrain, RegisterWake, HeadReady, DropInbox,
       DiscardInbox, Send, SendCheck, SendReserve, SendPublish, SendRecheck, SendDiscard, SendWake,
       DropLaneWake, Complete, TakeReply, ReadTiming, NetworkAnswers, Fire, PrepFails, DropLane,
       Abandon, rootVars
  <2> QED
    BY <1>1, <1>4, <2>1, OwnerUnqueued, OnceFewer
<1> QED
  BY <1>2, <1>3, <1>4

\* The reactor moves an actor from the queue to its list, and drops actors.
LEMMA ReactorOnce ==
    ASSUME Inv, Phases, Once, ReactorStep PROVE Once'
<1>t. /\ incoming \in Seq(Queued) /\ actors \in Seq(Lanes) /\ index \in Nat \ {0}
      /\ (dpc = "retire" => index <= Len(actors))
  BY DEF Inv, Typed, Phases
<1>o. opc' = opc
  BY ReactorFrame
<1>1. CASE actors' = actors /\ (incoming' = incoming \/ (incoming' = Tail(incoming) /\ incoming # <<>>))
  BY <1>o, <1>1, OnceFewer
<1>2. CASE PollIncoming /\ HeadReady(incoming)
  <2>1. /\ incoming' = Tail(incoming) /\ actors' = Append(actors, Head(incoming).lane)
        /\ incoming # <<>>
    BY <1>2 DEF PollIncoming, HeadReady
  <2>2. PICK h \in Queued : h = Head(incoming)
    BY <1>t, <2>1, QueueFacts
  <2>3. PICK k \in Lanes : k = h.lane
    BY DEF Queued
  <2>4. 1 \in DOMAIN incoming /\ incoming[1] = h
    BY <1>t, <2>1, <2>2, Shift
  <2>5. \A i \in DOMAIN incoming' :
          i \in Nat /\ i + 1 \in DOMAIN incoming /\ incoming'[i] = incoming[i + 1]
    BY <1>t, <2>1, Shift
  <2>6. \A i, j \in DOMAIN incoming' : i # j => i + 1 # j + 1
    BY <2>5, SMTT(40)
  <2>7. \A i \in DOMAIN incoming' : i + 1 # 1
    BY <1>t, <2>1, SMTT(40)
  <2>8. \A i \in DOMAIN actors' : \/ i \in DOMAIN actors /\ actors'[i] = actors[i]
                                  \/ i = Len(actors') /\ actors'[i] = k /\ i \notin DOMAIN actors
    BY <1>t, <2>1, <2>2, <2>3, Extend, SMTT(40)
  <2>9. opc[k] \notin Unqueued /\ \A j \in DOMAIN actors : actors[j] # k
    BY <2>3, <2>4 DEF Once
  <2>10. \A i \in DOMAIN incoming' : incoming'[i].lane # k
    BY <2>3, <2>4, <2>5, <2>7, SMTT(40) DEF Once
  <2>11. \A i \in DOMAIN incoming', j \in DOMAIN actors' : incoming'[i].lane # actors'[j]
    BY <2>5, <2>8, <2>10, SMTT(40) DEF Once
  <2>12. \A i, j \in DOMAIN actors' : i # j => actors'[i] # actors'[j]
    BY <2>8, <2>9 DEF Once
  <2>13. \A i, j \in DOMAIN incoming' : i # j => incoming'[i].lane # incoming'[j].lane
    BY <2>5, <2>6, SMTT(60) DEF Once
  <2>14. /\ \A i \in DOMAIN incoming' : opc[incoming'[i].lane] \notin Unqueued
         /\ \A i \in DOMAIN actors' : opc[actors'[i]] \notin Unqueued
    BY <2>5, <2>8, <2>9 DEF Once
  <2> QED
    BY <1>o, <2>11, <2>12, <2>13, <2>14 DEF Once
<1>3. ASSUME incoming' = incoming, NEW f,
             \A i \in DOMAIN actors' : f[i] \in DOMAIN actors /\ actors'[i] = actors[f[i]],
             \A i, j \in DOMAIN actors' : i # j => f[i] # f[j]
      PROVE  Once'
  BY <1>o, <1>3, SMTT(40) DEF Once
<1>4. CASE Retire
  <2>1. /\ incoming' = incoming /\ actors' = SwapRemove(actors, index) /\ index <= Len(actors)
    BY <1>4, <1>t DEF Retire
  <2> DEFINE f == [i \in 1..(Len(actors) - 1) |-> IF i = index THEN Len(actors) ELSE i]
  <2>2. /\ \A i \in DOMAIN actors' : f[i] \in DOMAIN actors /\ actors'[i] = actors[f[i]]
        /\ \A i, j \in DOMAIN actors' : i # j => f[i] # f[j]
    BY <1>t, <2>1, SMTT(40) DEF SwapRemove
  <2> HIDE DEF f
  <2> QED
    BY <1>3, <2>1, <2>2
<1>5. CASE DropActors /\ actors # <<>>
  <2>1. incoming' = incoming /\ actors' = Tail(actors)
    BY <1>5 DEF DropActors
  <2> DEFINE f == [i \in 1..(Len(actors) - 1) |-> i + 1]
  <2>2. /\ \A i \in DOMAIN actors' : f[i] \in DOMAIN actors /\ actors'[i] = actors[f[i]]
        /\ \A i, j \in DOMAIN actors' : i # j => f[i] # f[j]
    BY <1>t, <1>5, <2>1, SMTT(40)
  <2> HIDE DEF f
  <2> QED
    BY <1>3, <2>1, <2>2
<1>6. \/ actors' = actors /\ (incoming' = incoming \/ (incoming' = Tail(incoming) /\ incoming # <<>>))
      \/ PollIncoming /\ HeadReady(incoming)
      \/ Retire
      \/ DropActors /\ actors # <<>>
  <2>1. CASE \E l \in Lanes : PollActor(l) \/ Panic(l)
    BY <2>1, ZenonT(40) DEF PollActor, RecvYield, RecvCommand, RecvEmpty, RunPending, RunReply, RunEnd,
       Panic, rootVars
  <2>2. CASE PollBegin \/ PollIncoming \/ PollEnd \/ CloseInbox \/ Discard \/ DriverDrop
    BY <2>2 DEF PollBegin, PollIncoming, PollEnd, CloseInbox, Discard, DriverDrop, rootVars
  <2>3. CASE DropIncoming \/ DropActors
    BY <2>3 DEF DropIncoming, DropActors, HeadReady
  <2> QED
    BY <2>1, <2>2, <2>3 DEF ReactorStep, Reactor
<1> QED
  BY <1>1, <1>2, <1>4, <1>5, <1>6

LEMMA OnceNext ==
    ASSUME Inv, Phases, Once, [Next]_vars PROVE Once'
<1>1. CASE UNCHANGED vars
  BY <1>1, ZenonT(40) DEF vars, rootVars, ownerVars, Once
<1>2. Next => ReactorStep \/ \E l \in Lanes : OwnerStep(l)
  BY DEF Next, ReactorStep, OwnerStep
<1> QED
  BY <1>1, <1>2, OwnerOnce, ReactorOnce

\* An actor that took a command yields before the next one; one that completed
\* a command in this poll is not ahead of the reactor, unless it is the one
\* being polled and is about to yield.
Served ==
    /\ yield_next \in [Lanes -> BOOLEAN] /\ served \subseteq Lanes
    /\ \A l \in Lanes : apc[l] # "recv" => yield_next[l]
    /\ \A l \in served : \A i \in DOMAIN actors :
         i >= index /\ actors[i] = l => i = index /\ apc[l] = "recv" /\ yield_next[l]

LEMMA ServedInit ==
    Init => Served
<1> SUFFICES ASSUME Init PROVE Served
  OBVIOUS
<1>1. /\ yield_next = [l \in Lanes |-> FALSE] /\ served = {}
      /\ apc = [l \in Lanes |-> "recv"]
  BY DEF Init
<1> QED
  BY <1>1 DEF Served

\* The polled actor is done for this poll: the reactor goes to the next one.
LEMMA ServedAdvance ==
    ASSUME Inv, Served, NEW l \in Lanes, Polled(l), index' = index + 1, actors' = actors,
           served' = served, yield_next' \in [Lanes -> BOOLEAN],
           apc'[l] # "recv" => yield_next'[l],
           \A k \in Lanes : k # l => apc'[k] = apc[k] /\ yield_next'[k] = yield_next[k]
    PROVE  Served'
<1>1. index \in Nat /\ DOMAIN actors \subseteq Nat
  <2>1. actors \in Seq(Lanes) /\ index \in Nat
    BY DEF Inv, Typed
  <2> QED
    BY <2>1, SMTT(40)
<1>2. \A i \in DOMAIN actors : i >= index' => i >= index /\ i # index
  BY <1>1, SMTT(40)
<1>3. \A k \in served : \A i \in DOMAIN actors : i >= index' => actors[i] # k
  BY <1>2 DEF Served
<1> QED
  BY <1>3 DEF Served

\* The actors and the reactor's place in them stay; nobody served is disturbed.
LEMMA ServedSame ==
    ASSUME Served, index' = index, actors' = actors, served' = served,
           yield_next' \in [Lanes -> BOOLEAN],
           \A k \in Lanes : \/ apc'[k] = apc[k] /\ yield_next'[k] = yield_next[k]
                            \/ /\ apc'[k] # "recv" => yield_next'[k]
                               /\ apc[k] # "recv"
    PROVE  Served'
<1>1. \A k \in Lanes : apc'[k] # "recv" => yield_next'[k]
  BY DEF Served
<1>2. ASSUME NEW k \in served, NEW i \in DOMAIN actors, i >= index, actors[i] = k
      PROVE  i = index /\ apc'[k] = "recv" /\ yield_next'[k]
  <2>1. i = index /\ apc[k] = "recv" /\ yield_next[k] /\ k \in Lanes
    BY <1>2 DEF Served
  <2> QED
    BY <2>1
<1> QED
  BY <1>1, <1>2 DEF Served

\* An actor is served when the reactor ends its command.
LEMMA RunEndServed ==
    ASSUME Inv, Phases, Once, Served, NEW l \in Lanes, RunEnd(l) PROVE Served'
<1>t. /\ apc \in [Lanes -> ActorSteps] /\ actors \in Seq(Lanes) /\ index \in Nat \ {0}
  BY DEF Inv, Typed, Phases
<1>1. /\ Polled(l) /\ apc[l] = "replied" /\ apc' = [apc EXCEPT ![l] = "recv"]
      /\ served' = served \union {l} /\ yield_next' = yield_next /\ actors' = actors
      /\ index' = index
  BY DEF RunEnd, rootVars
<1>2. \A k \in Lanes : apc'[k] # "recv" => yield_next[k]
  BY <1>t, <1>1 DEF Served
<1>3. yield_next[l] /\ apc'[l] = "recv"
  BY <1>t, <1>1 DEF Served
<1>4. ASSUME NEW i \in DOMAIN actors, i >= index, actors[i] = l PROVE i = index
  <2>1. index \in DOMAIN actors /\ actors[index] = l
    <3>1. index <= Len(actors) /\ actors[index] = l
      BY <1>1 DEF Polled
    <3> QED
      BY <1>t, <1>4, <3>1, SMTT(40)
  <2> QED
    BY <1>4, <2>1 DEF Once
<1>5. ASSUME NEW k \in served', NEW i \in DOMAIN actors, i >= index, actors[i] = k
      PROVE  i = index /\ apc'[k] = "recv" /\ yield_next[k]
  <2>1. CASE k = l
    BY <1>3, <1>4, <1>5, <2>1
  <2>2. CASE k # l
    <3>1. k \in served /\ k \in Lanes
      BY <1>1, <1>5, <2>2 DEF Served
    <3>2. apc'[k] = apc[k]
      BY <1>t, <1>1, <2>2, <3>1
    <3> QED
      BY <1>5, <3>1, <3>2 DEF Served
  <2> QED
    BY <2>1, <2>2
<1> QED
  BY <1>1, <1>2, <1>5, ZenonT(40) DEF Served

\* The actor that is polled and has a command was not served in this poll.
LEMMA PanicServed ==
    ASSUME Inv, Served, NEW l \in Lanes, Panic(l) PROVE Served'
<1>t. /\ apc \in [Lanes -> ActorSteps] /\ yield_next \in [Lanes -> BOOLEAN]
  BY DEF Inv, Typed, Served
<1>1. /\ apc[l] # "recv" /\ apc' = [apc EXCEPT ![l] = "recv"] /\ served' = served
      /\ yield_next' = [yield_next EXCEPT ![l] = FALSE] /\ actors' = actors /\ index' = index
  BY DEF Panic, DropRunning, rootVars
<1>2. /\ yield_next' \in [Lanes -> BOOLEAN] /\ apc'[l] = "recv"
      /\ \A k \in Lanes : k # l => apc'[k] = apc[k] /\ yield_next'[k] = yield_next[k]
  BY <1>t, <1>1
<1> QED
  BY <1>1, <1>2, ServedSame

LEMMA ServedNext ==
    ASSUME Inv, Phases, Once, Served, [Next]_vars PROVE Served'
<1>t. /\ apc \in [Lanes -> ActorSteps] /\ actors \in Seq(Lanes) /\ index \in Nat \ {0}
      /\ yield_next \in [Lanes -> BOOLEAN]
      /\ \A l \in Lanes : apc[l] # "recv" => yield_next[l]
  BY DEF Inv, Typed, Phases, Served
<1>0. CASE UNCHANGED <<yield_next, apc, served, actors, index>>
  BY <1>t, <1>0, ServedSame
<1>1. ASSUME NEW l \in Lanes, NetworkAnswers(l) PROVE Served'
  <2>1. /\ apc[l] = "network" /\ apc' = [apc EXCEPT ![l] = "answered"] /\ yield_next' = yield_next
        /\ served' = served /\ actors' = actors /\ index' = index
    BY <1>1 DEF NetworkAnswers, reactorVars
  <2>2. \A k \in Lanes : k # l => apc'[k] = apc[k]
    BY <1>t, <2>1
  <2> QED
    BY <1>t, <2>1, <2>2, ServedSame
<1>2. ASSUME NEW l \in Lanes, OwnerStep(l), ~NetworkAnswers(l) PROVE Served'
  <2>1. /\ actors' = actors /\ index' = index /\ served' = served /\ yield_next' = yield_next
    BY <1>2, OwnerFrame
  <2>2. apc' = apc
    BY <1>2 DEF OwnerStep, Register, RegisterReserve, RegisterPush, RegisterUnreserve,
       RegisterPublish, RegisterRecheck, RegisterDrain, RegisterWake, DropInbox, DiscardInbox,
       Send, SendCheck, SendReserve, SendPublish, SendRecheck, SendDiscard, SendWake, DropLaneWake,
       Complete, TakeReply, ReadTiming, Fire, PrepFails, DropLane, Abandon, laneVars
  <2> QED
    BY <1>0, <2>1, <2>2
<1>3. ASSUME NEW l \in Lanes, RecvYield(l) PROVE Served'
  <2>1. /\ Polled(l) /\ index' = index + 1 /\ actors' = actors /\ served' = served
        /\ apc[l] = "recv" /\ apc' = apc /\ yield_next' = [yield_next EXCEPT ![l] = FALSE]
    BY <1>3 DEF RecvYield
  <2>2. /\ yield_next' \in [Lanes -> BOOLEAN]
        /\ \A k \in Lanes : k # l => yield_next'[k] = yield_next[k]
    BY <1>t, <2>1
  <2> QED
    BY <2>1, <2>2, ServedAdvance
<1>4. ASSUME NEW l \in Lanes, RecvCommand(l) PROVE Served'
  <2>1. /\ Polled(l) /\ index' = index + 1 /\ actors' = actors /\ served' = served
        /\ apc' = [apc EXCEPT ![l] = "network"] /\ yield_next' = [yield_next EXCEPT ![l] = TRUE]
    BY <1>4 DEF RecvCommand, rootVars
  <2>2. /\ yield_next' \in [Lanes -> BOOLEAN] /\ yield_next'[l]
        /\ \A k \in Lanes : k # l => yield_next'[k] = yield_next[k] /\ apc'[k] = apc[k]
    BY <1>t, <2>1
  <2> QED
    BY <2>1, <2>2, ServedAdvance
<1>5. ASSUME NEW l \in Lanes, RecvEmpty(l) PROVE Served'
  <2>1. /\ Polled(l) /\ index' \in {index, index + 1} /\ actors' = actors /\ served' = served
        /\ apc[l] = "recv" /\ apc' = apc /\ yield_next' = yield_next
    BY <1>5 DEF RecvEmpty, rootVars, laneVars
  <2> QED
    BY <1>t, <1>0, <2>1, ServedAdvance
<1>6. ASSUME NEW l \in Lanes, RunPending(l) PROVE Served'
  <2>1. /\ Polled(l) /\ index' = index + 1 /\ actors' = actors /\ served' = served
        /\ apc' = apc /\ yield_next' = yield_next
    BY <1>6 DEF RunPending, rootVars, laneVars
  <2> QED
    BY <1>t, <2>1, ServedAdvance
<1>7. ASSUME NEW l \in Lanes, RunReply(l) PROVE Served'
  <2>1. /\ apc[l] = "answered" /\ apc' = [apc EXCEPT ![l] = "replied"] /\ yield_next' = yield_next
        /\ served' = served /\ actors' = actors /\ index' = index
    BY <1>7 DEF RunReply, rootVars, reactorVars
  <2>2. \A k \in Lanes : k # l => apc'[k] = apc[k]
    BY <1>t, <2>1
  <2> QED
    BY <1>t, <2>1, <2>2, ServedSame
<1>8. CASE PollBegin \/ CloseInbox \/ Discard \/ DriverDrop \/ DropIncoming
  BY <1>0, <1>8 DEF PollBegin, CloseInbox, Discard, DriverDrop, DropIncoming, rootVars, laneVars
<1>9. CASE PollIncoming \/ PollEnd \/ DropActors
  <2>1. served' = {}
    BY <1>9 DEF PollIncoming, PollEnd, DropActors, Phases, Ending, Teardown
  <2>2. /\ yield_next' \in [Lanes -> BOOLEAN]
        /\ \A k \in Lanes : apc'[k] # "recv" => yield_next'[k]
    <3>1. CASE yield_next' = yield_next /\ apc' = apc
      BY <1>t, <3>1
    <3>2. CASE DropActors /\ actors # <<>>
      <4>1. PICK l \in Lanes : l = Head(actors)
        BY <1>t, <3>2, QueueFacts
      <4>2. apc' = [apc EXCEPT ![l] = "recv"] /\ yield_next' = [yield_next EXCEPT ![l] = FALSE]
        BY <3>2, <4>1 DEF DropActors, DropRunning
      <4> QED
        BY <1>t, <4>2
    <3> QED
      BY <1>9, <3>1, <3>2 DEF PollIncoming, PollEnd, DropActors, laneVars
  <2> QED
    BY <2>1, <2>2 DEF Served
<1>10. CASE Retire
  <2>1. /\ actors' = SwapRemove(actors, index) /\ index <= Len(actors) /\ index' = index
        /\ served' = served /\ apc' = apc /\ yield_next' = yield_next
    BY <1>10 DEF Retire, Phases, laneVars
  <2>2. \A i \in DOMAIN actors' : i >= index =>
          \E j \in DOMAIN actors : j > index /\ actors'[i] = actors[j]
    <3> SUFFICES ASSUME NEW i \in DOMAIN actors', i >= index
                 PROVE  \E j \in DOMAIN actors : j > index /\ actors'[i] = actors[j]
      OBVIOUS
    <3>1. /\ i \in 1..(Len(actors) - 1) /\ Len(actors) \in Nat
          /\ actors'[i] = IF i = index THEN actors[Len(actors)] ELSE actors[i]
          /\ DOMAIN actors = 1..Len(actors)
      BY <1>t, <2>1, SMTT(40) DEF SwapRemove
    <3>2. CASE i = index
      <4>1. Len(actors) \in DOMAIN actors /\ Len(actors) > index /\ actors'[i] = actors[Len(actors)]
        BY <1>t, <3>1, <3>2, SMTT(40)
      <4> QED
        BY <4>1
    <3>3. CASE i # index
      <4>1. i \in DOMAIN actors /\ i > index /\ actors'[i] = actors[i]
        BY <1>t, <3>1, <3>3, SMTT(40)
      <4> QED
        BY <4>1
    <3> QED
      BY <3>2, <3>3
  <2>3. \A j \in DOMAIN actors : j > index => j >= index /\ j # index
    BY <1>t, SMTT(40)
  <2>4. \A k \in served : \A i \in DOMAIN actors' : i >= index => actors'[i] # k
    BY <2>2, <2>3 DEF Served
  <2> QED
    BY <2>1, <2>4 DEF Served
<1>11. CASE Reactor \/ DriverDrop \/ \E l \in Lanes : Panic(l)
  BY <1>3, <1>4, <1>5, <1>6, <1>7, <1>8, <1>9, <1>10, <1>11, RunEndServed, PanicServed
     DEF Reactor, PollActor
<1>12. CASE UNCHANGED vars
  BY <1>0, <1>12 DEF vars, rootVars, reactorVars, laneVars
<1>13. Next => ReactorStep \/ \E l \in Lanes : OwnerStep(l)
  BY DEF Next, ReactorStep, OwnerStep
<1> QED
  BY <1>1, <1>2, <1>11, <1>12, <1>13 DEF ReactorStep

\* Only the actor that is polled begins a command, and it does not if it has to
\* yield first.
LEMMA BeginsOnce ==
    ASSUME Inv, Phases, Served, [Next]_vars,
           NEW l \in Lanes, cmd'[l] # cmd[l], cmd'[l] # NoCommand
    PROVE  l \notin served
<1>t. cmd \in [Lanes -> Commands] /\ actors \in Seq(Lanes) /\ index \in Nat \ {0}
  BY DEF Inv, Typed, Phases
<1>1. RecvCommand(l)
  <2>1. ASSUME NEW k \in Lanes, OwnerStep(k) PROVE FALSE
    BY <2>1 DEF OwnerStep, Register, RegisterReserve, RegisterPush, RegisterUnreserve,
       RegisterPublish, RegisterRecheck, RegisterDrain, RegisterWake, DropInbox, DiscardInbox,
       Send, SendCheck, SendReserve, SendPublish, SendRecheck, SendDiscard, SendWake, DropLaneWake,
       Complete, TakeReply, ReadTiming, NetworkAnswers, Fire, PrepFails, DropLane, Abandon,
       laneVars
  <2>2. ASSUME NEW k \in Lanes, RecvYield(k) \/ RecvEmpty(k) \/ RunPending(k) \/ RunReply(k)
        PROVE  FALSE
    BY <2>2 DEF RecvYield, RecvEmpty, RunPending, RunReply, laneVars
  <2>3. ASSUME NEW k \in Lanes, RunEnd(k) \/ Panic(k) PROVE FALSE
    <3>1. cmd' = [cmd EXCEPT ![k] = NoCommand]
      BY <2>3 DEF RunEnd, Panic, DropRunning
    <3> QED
      BY <1>t, <3>1
  <2>4. ASSUME NEW k \in Lanes, RecvCommand(k) PROVE k = l
    <3>1. \E c : cmd' = [cmd EXCEPT ![k] = c]
      BY <2>4 DEF RecvCommand
    <3> QED
      BY <1>t, <3>1
  <2>5. ~DropActors
    <3> SUFFICES ASSUME DropActors PROVE FALSE
      OBVIOUS
    <3>1. CASE actors = <<>>
      BY <3>1 DEF DropActors
    <3>2. CASE actors # <<>>
      <4>1. PICK k \in Lanes : k = Head(actors)
        BY <1>t, <3>2, QueueFacts
      <4>2. cmd' = [cmd EXCEPT ![k] = NoCommand]
        BY <3>2, <4>1 DEF DropActors, DropRunning
      <4> QED
        BY <1>t, <4>2
    <3> QED
      BY <3>1, <3>2
  <2>6. ~(PollBegin \/ PollIncoming \/ PollEnd \/ CloseInbox \/ Discard \/ Retire \/ DropIncoming
          \/ DriverDrop)
    BY DEF PollBegin, PollIncoming, PollEnd, CloseInbox, Discard, Retire, DropIncoming, DriverDrop,
       laneVars
  <2>7. ~UNCHANGED vars
    BY DEF vars, laneVars
  <2> QED
    BY <2>1, <2>2, <2>3, <2>4, <2>5, <2>6, <2>7 DEF Next, OwnerStep, Reactor, PollActor
<1>2. index <= Len(actors) /\ actors[index] = l /\ ~yield_next[l]
  BY <1>1 DEF RecvCommand, Polled
<1>3. index >= index /\ index \in DOMAIN actors
  BY <1>t, <1>2, SMTT(40)
<1> QED
  BY <1>2, <1>3 DEF Served

-----------------------------------------------------------------------------
(* Requests are told apart by their numbers *)

\* The slots of a lane serve different requests, whoever holds the Sender holds
\* the metadata, and an actor that has replied holds the metadata only.
Numbers(l) ==
    /\ \A s \in Pool : slots[l][s].timing <= requests /\ slots[l][s].tx \subseteq slots[l][s].writers
    /\ \A s, t \in Pool :
         s # t /\ slots[l][s].timing = slots[l][t].timing => slots[l][s].timing = None
    /\ apc[l] = "replied" =>
         cmd[l].req \in slots[l][cmd[l].slot].writers /\ slots[l][cmd[l].slot].tx = {}

Numbered == \A l \in Lanes : Numbers(l)

LEMMA NumberedInit ==
    Init => Numbered
<1> SUFFICES ASSUME Init, NEW l \in Lanes PROVE Numbers(l)
  BY DEF Numbered
<1>1. /\ slots = [k \in Lanes |-> [s \in Pool |-> EmptySlot]]
      /\ apc = [k \in Lanes |-> "recv"] /\ requests = 0
  BY DEF Init
<1>2. \A s \in Pool : slots[l][s] = EmptySlot
  BY <1>1
<1>3. EmptySlot.timing = None /\ EmptySlot.tx = {} /\ None <= 0
  BY SMTT(40) DEF EmptySlot, None
<1> QED
  BY <1>1, <1>2, <1>3 DEF Numbers

\* The reply that says NotSent is not new.
Truthful ==
    \A l \in Lanes, s \in Pool :
      slots'[l][s].channel = <<[req |-> cmd[l].req, kind |-> "not_sent"]>> =>
        slots'[l][s].channel = slots[l][s].channel

\* No slot changes, and no actor replies.
LEMMA NumberedSame ==
    ASSUME Numbered, slots' = slots, requests' = requests,
           \A k \in Lanes : apc'[k] = "replied" => apc[k] = "replied" /\ cmd'[k] = cmd[k]
    PROVE  Numbered' /\ Truthful
<1>1. ASSUME NEW k \in Lanes PROVE Numbers(k)'
  BY DEF Numbered, Numbers
<1> QED
  BY <1>1 DEF Numbered, Truthful

\* What a slot may become, for the request it serves or for the next one.
Renumbers(l, s, new) ==
    /\ Update(l, s, new)
    /\ new.tx \subseteq new.writers
    /\ \/ new.timing = slots[l][s].timing /\ requests' = requests
       \/ new.timing = requests + 1 /\ requests' = requests + 1
    /\ \/ new.channel \in {<<>>, slots[l][s].channel}
       \/ \E r, kind : /\ new.channel = <<[req |-> r, kind |-> kind]>>
                       /\ kind # "not_sent" \/ r # cmd[l].req

\* An actor that has replied had done so in another slot or keeps the writer,
\* or it replies now.
Replied(l, s, new) ==
    \A k \in Lanes : apc'[k] = "replied" =>
      \/ /\ apc[k] = "replied" /\ cmd'[k] = cmd[k]
         /\ \/ k # l \/ cmd[k].slot # s
            \/ new.tx = slots[l][s].tx /\ new.writers = slots[l][s].writers
      \/ k = l /\ cmd'[k].slot = s /\ cmd'[k].req \in new.writers /\ new.tx = {}

\* One slot changes.
LEMMA NumberedUpdate ==
    ASSUME Inv, Numbered, NEW l \in Lanes, NEW s \in Pool, NEW new \in SlotType, SlotOK(new),
           Renumbers(l, s, new), Replied(l, s, new)
    PROVE  Numbered' /\ Truthful
<1>t. slots \in [Lanes -> [Pool -> SlotType]] /\ requests \in 0..MaxRequests
  BY DEF Inv, Typed
<1>1. /\ slots'[l][s] = new
      /\ \A k \in Lanes, t \in Pool : k # l \/ t # s => slots'[k][t] = slots[k][t]
  <2>1. Update(l, s, new)
    BY DEF Renumbers
  <2>2. Updated(l, s, new)
    BY <2>1, SlotUpdate
  <2> QED
    BY <2>2 DEF Updated
<1>2. requests \in Nat /\ requests + 1 # None /\ \A k \in Lanes, t \in Pool : slots[k][t].timing \in Int
  <2>1. \A k \in Lanes, t \in Pool : slots[k][t].timing \in 0..MaxRequests
    BY <1>t DEF SlotType
  <2> QED
    BY <1>t, <2>1, LaneAssumption, SMTT(40) DEF None
<1>3. \A k \in Lanes, t \in Pool : /\ slots[k][t].timing <= requests
                                   /\ slots[k][t].tx \subseteq slots[k][t].writers
  BY DEF Numbered, Numbers
<1>4. /\ \A k \in Lanes, t \in Pool : slots[k][t].timing <= requests'
      /\ new.timing <= requests'
      /\ \A k \in Lanes, t \in Pool : slots[k][t].timing # requests + 1
  <2>1. \/ new.timing = slots[l][s].timing /\ requests' = requests
        \/ new.timing = requests + 1 /\ requests' = requests + 1
    BY DEF Renumbers
  <2> QED
    BY <1>2, <1>3, <2>1, SMTT(40)
<1>5. \A k \in Lanes, t \in Pool : /\ slots'[k][t].timing <= requests'
                                   /\ slots'[k][t].tx \subseteq slots'[k][t].writers
  BY <1>1, <1>3, <1>4, ZenonT(40) DEF Renumbers
<1>6. ASSUME NEW k \in Lanes, NEW t \in Pool, NEW u \in Pool, t # u,
             slots'[k][t].timing = slots'[k][u].timing
      PROVE  slots'[k][t].timing = None
  <2>1. slots[k][t].timing = slots[k][u].timing => slots[k][t].timing = None
    BY <1>6 DEF Numbered, Numbers
  <2>2. CASE new.timing = slots[l][s].timing
    <3>1. slots'[k][t].timing = slots[k][t].timing /\ slots'[k][u].timing = slots[k][u].timing
      BY <1>1, <2>2
    <3> QED
      BY <1>6, <2>1, <3>1
  <2>3. CASE new.timing = requests + 1
    <3>1. CASE k = l /\ t = s
      BY <1>1, <1>4, <1>6, <2>3, <3>1, ZenonT(40)
    <3>2. CASE k = l /\ u = s
      BY <1>1, <1>4, <1>6, <2>3, <3>2, ZenonT(40)
    <3>3. CASE k # l \/ (t # s /\ u # s)
      BY <1>1, <1>6, <2>1, <3>3
    <3> QED
      BY <3>1, <3>2, <3>3
  <2> QED
    BY <2>2, <2>3 DEF Renumbers
<1>7. ASSUME NEW k \in Lanes, apc'[k] = "replied"
      PROVE  cmd'[k].req \in slots'[k][cmd'[k].slot].writers /\ slots'[k][cmd'[k].slot].tx = {}
  <2>1. CASE k = l /\ cmd'[k].slot = s /\ cmd'[k].req \in new.writers /\ new.tx = {}
    BY <1>1, <2>1
  <2>2. CASE /\ apc[k] = "replied" /\ cmd'[k] = cmd[k]
             /\ \/ k # l \/ cmd[k].slot # s
                \/ new.tx = slots[l][s].tx /\ new.writers = slots[l][s].writers
    <3>1. PICK c \in Pool : c = cmd[k].slot
      BY <2>2 DEF Inv, ActorOK
    <3>2. cmd[k].req \in slots[k][c].writers /\ slots[k][c].tx = {}
      BY <2>2, <3>1 DEF Numbered, Numbers
    <3>3. slots'[k][c].writers = slots[k][c].writers /\ slots'[k][c].tx = slots[k][c].tx
      BY <1>1, <2>2, <3>1
    <3> QED
      BY <2>2, <3>1, <3>2, <3>3
  <2> QED
    BY <1>7, <2>1, <2>2 DEF Replied
<1>8. Truthful
  <2> SUFFICES ASSUME NEW k \in Lanes, NEW t \in Pool,
                      slots'[k][t].channel = <<[req |-> cmd[k].req, kind |-> "not_sent"]>>
               PROVE  slots'[k][t].channel = slots[k][t].channel
    BY DEF Truthful
  <2>1. CASE k # l \/ t # s
    BY <1>1, <2>1
  <2>2. CASE k = l /\ t = s
    <3>1. new.channel = <<[req |-> cmd[l].req, kind |-> "not_sent"]>> /\ new.channel # <<>>
      <4>1. new.channel = <<[req |-> cmd[l].req, kind |-> "not_sent"]>>
        BY <1>1, <2>2
      <4> QED
        BY <4>1, SMTT(40)
    <3>2. ASSUME NEW r, NEW kind, new.channel = <<[req |-> r, kind |-> kind]>>
          PROVE  kind = "not_sent" /\ r = cmd[l].req
      <4> DEFINE a == [req |-> cmd[l].req, kind |-> "not_sent"]
                 b == [req |-> r, kind |-> kind]
      <4>1. <<a>> = <<b>>
        BY <3>1, <3>2
      <4>2. a = b
        <5> HIDE DEF a, b
        <5> QED
          BY <4>1, SMTT(40)
      <4>3. a.req = b.req /\ a.kind = b.kind
        BY <4>2
      <4> QED
        BY <4>3
    <3>3. \/ new.channel = <<>> \/ new.channel = slots[l][s].channel
          \/ \E r, kind : /\ new.channel = <<[req |-> r, kind |-> kind]>>
                          /\ kind # "not_sent" \/ r # cmd[l].req
      BY DEF Renumbers
    <3>4. ~\E r, kind : /\ new.channel = <<[req |-> r, kind |-> kind]>>
                        /\ kind # "not_sent" \/ r # cmd[l].req
      BY <3>2
    <3>5. new.channel = slots[l][s].channel
      BY <3>1, <3>3, <3>4
    <3> QED
      BY <1>1, <2>2, <3>5
  <2> QED
    BY <2>1, <2>2
<1>9. ASSUME NEW k \in Lanes PROVE Numbers(k)'
  BY <1>5, <1>6, <1>7 DEF Numbers
<1> QED
  BY <1>8, <1>9 DEF Numbered

\* The Sender is gone, and its reply is in the channel.
Ended(slot, r, kind, new) ==
    /\ new \in SlotType /\ SlotOK(new)
    /\ new.tx = {} /\ new.timing = slot.timing
    /\ new.channel = <<[req |-> r, kind |-> kind]>>

LEMMA EndedRenumbers ==
    ASSUME NEW l, NEW s, NEW new, Update(l, s, new), requests' = requests, NEW r, NEW kind,
           Ended(slots[l][s], r, kind, new), kind # "not_sent" \/ r # cmd[l].req
    PROVE  Renumbers(l, s, new)
  BY DEF Renumbers, Ended

\* The fields of a slot whose command answers or is dropped.
LEMMA ReplyNumbers ==
    ASSUME NEW slot \in SlotType, SlotOK(slot), NEW r \in slot.tx
    PROVE  /\ Ended(slot, r, "answer", Answer(slot, r))
           /\ Answer(slot, r).writers = slot.writers
           /\ Ended(slot, r, "dropped", DropCommand(slot, r))
           /\ Ended(slot, r, "not_sent", RejectCommand(slot, r))
<1>1. slot.channel = <<>> /\ slot.tx \ {r} = {}
  BY DEF SlotOK, SlotType
<1>2. \A kind : Reply(slot, r, kind) =
          [tx |-> {}, rx |-> slot.rx, writers |-> slot.writers,
           readers |-> slot.readers, channel |-> <<[req |-> r, kind |-> kind]>>,
           timing |-> slot.timing]
  BY <1>1, ReplyFields
<1>3. ASSUME NEW kind
      PROVE  /\ Reply(slot, r, kind).tx = {} /\ Reply(slot, r, kind).writers = slot.writers
             /\ Reply(slot, r, kind).timing = slot.timing
             /\ Reply(slot, r, kind).channel = <<[req |-> r, kind |-> kind]>>
             /\ [Reply(slot, r, kind) EXCEPT !.writers = @ \ {r}].tx = {}
             /\ [Reply(slot, r, kind) EXCEPT !.writers = @ \ {r}].timing = slot.timing
             /\ [Reply(slot, r, kind) EXCEPT !.writers = @ \ {r}].channel
                  = <<[req |-> r, kind |-> kind]>>
  <2> DEFINE a == Reply(slot, r, kind)
             c == <<[req |-> r, kind |-> kind]>>
  <2>1. a = [tx |-> {}, rx |-> slot.rx, writers |-> slot.writers,
             readers |-> slot.readers, channel |-> c, timing |-> slot.timing]
    BY <1>2
  <2> HIDE DEF a, c
  <2>2. /\ a.tx = {} /\ a.writers = slot.writers /\ a.timing = slot.timing /\ a.channel = c
    BY <2>1
  <2>3. /\ [a EXCEPT !.writers = @ \ {r}].tx = {}
        /\ [a EXCEPT !.writers = @ \ {r}].timing = slot.timing
        /\ [a EXCEPT !.writers = @ \ {r}].channel = c
    BY <2>1
  <2> QED
    BY <2>2, <2>3 DEF a, c
<1>4. Ended(slot, r, "answer", Answer(slot, r)) /\ Answer(slot, r).writers = slot.writers
  BY <1>3, RepliesKeepSlot DEF Answer, Ended
<1>5. Ended(slot, r, "dropped", DropCommand(slot, r))
  BY <1>3, RepliesKeepSlot DEF DropCommand, Ended
<1>6. Ended(slot, r, "not_sent", RejectCommand(slot, r))
  BY <1>3, RepliesKeepSlot DEF RejectCommand, Ended
<1> QED
  BY <1>4, <1>5, <1>6

\* The receiving side of a slot lets a handle go.
Released(slot, new) ==
    /\ new \in SlotType /\ SlotOK(new)
    /\ new.tx = slot.tx /\ new.timing = slot.timing
    /\ new.channel \in {<<>>, slot.channel}

LEMMA ReleaseNumbers ==
    ASSUME NEW slot \in SlotType, SlotOK(slot), NEW r
    PROVE  /\ Released(slot, DropReceiver(slot, r)) /\ DropReceiver(slot, r).writers = slot.writers
           /\ Released(slot, DropReader(slot, r)) /\ DropReader(slot, r).writers = slot.writers
           /\ (r \in slot.rx => /\ Released(slot, AcceptReply(slot, r))
                                /\ AcceptReply(slot, r).writers = slot.writers)
           /\ Released(slot, DropWriter(slot, r)) /\ DropReceiver(slot, r).channel = slot.channel
<1>1. /\ Released(slot, DropReceiver(slot, r)) /\ DropReceiver(slot, r).writers = slot.writers
      /\ DropReceiver(slot, r).channel = slot.channel
  BY ReleaseKeepsSlot DEF Released, DropReceiver, SlotType
<1>2. Released(slot, DropReader(slot, r)) /\ DropReader(slot, r).writers = slot.writers
  BY ReleaseKeepsSlot DEF Released, DropReader, SlotType
<1>3. r \in slot.rx => /\ Released(slot, AcceptReply(slot, r))
                       /\ AcceptReply(slot, r).writers = slot.writers
  BY ReleaseKeepsSlot DEF Released, AcceptReply, SlotType
<1>4. Released(slot, DropWriter(slot, r))
  BY ReleaseKeepsSlot DEF Released, DropWriter, SlotType
<1> QED
  BY <1>1, <1>2, <1>3, <1>4

\* The request in the owner's hand is another one than the actor's.
LEMMA HandDiffers ==
    ASSUME Inv, Numbered, NEW l \in Lanes, InHand(l)
    PROVE  own[l].req # cmd[l].req /\ (apc[l] # "recv" => own[l].slot # cmd[l].slot)
<1>t. slots \in [Lanes -> [Pool -> SlotType]] /\ apc \in [Lanes -> ActorSteps] /\ ActorOK(l) /\ HeldOK(l)
  BY DEF Inv, Typed
<1>1. PICK s \in Pool : s = own[l].slot /\ own[l].req \in slots[l][s].tx
  BY <1>t DEF HeldOK, Held
<1>2. \A t \in Pool : SlotOK(slots[l][t]) /\ slots[l][t] \in SlotType
  BY <1>t DEF Inv
<1>3. slots[l][s].timing = own[l].req /\ own[l].req \in Requests
  BY <1>1, <1>2 DEF SlotOK, SlotType
<1>4. own[l].req # None
  BY <1>3, SMTT(40) DEF Requests, None
<1>5. CASE apc[l] = "recv"
  <2>1. cmd[l] = NoCommand /\ NoCommand.req = None
    BY <1>t, <1>5 DEF ActorOK, NoCommand
  <2> QED
    BY <1>4, <1>5, <2>1
<1>6. CASE apc[l] # "recv"
  <2>1. PICK c \in Pool : c = cmd[l].slot
    BY <1>t, <1>6 DEF ActorOK
  <2>2. c # s /\ cmd[l].req = slots[l][c].timing
    <3>1. CASE apc[l] = "replied"
      <4>1. cmd[l].req \in slots[l][c].writers /\ slots[l][c].tx = {}
        BY <2>1, <3>1 DEF Numbered, Numbers
      <4> QED
        BY <1>1, <1>2, <4>1 DEF SlotOK
    <3>2. CASE Running(l)
      <4>1. cmd[l].req \in slots[l][c].tx /\ c # s
        BY <1>t, <1>1, <2>1, <3>2 DEF HeldOK, Held
      <4> QED
        BY <1>2, <4>1 DEF SlotOK
    <3> QED
      BY <1>t, <1>6, <3>1, <3>2 DEF Running, ActorSteps
  <2>3. slots[l][s].timing # slots[l][c].timing
    BY <1>3, <1>4, <2>2 DEF Numbered, Numbers
  <2> QED
    BY <1>1, <1>3, <2>1, <2>2, <2>3
<1> QED
  BY <1>5, <1>6

\* The owner gives up the command in its hand.
LEMMA HandNumbered ==
    ASSUME Inv, Numbered, NEW l \in Lanes, InHand(l), Reject(l) \/ PrepFails(l),
           apc' = apc, cmd' = cmd, requests' = requests
    PROVE  Numbered' /\ Truthful
<1>1. PICK s \in Pool : s = own[l].slot /\ own[l].req \in slots[l][s].tx
  BY DEF Inv, HeldOK, Held
<1>2. slots[l][s] \in SlotType /\ SlotOK(slots[l][s])
  BY DEF Inv, Typed
<1>3. PICK r : r = own[l].req
  OBVIOUS
<1>4. r # cmd[l].req /\ (apc[l] # "recv" => s # cmd[l].slot)
  BY <1>1, <1>3, HandDiffers
<1>5. ASSUME NEW new, Update(l, s, new), NEW kind, Ended(slots[l][s], r, kind, new)
      PROVE  Numbered' /\ Truthful
  <2>1. Renumbers(l, s, new)
    BY <1>4, <1>5, EndedRenumbers
  <2>2. Replied(l, s, new)
    BY <1>4 DEF Replied
  <2>3. new \in SlotType /\ SlotOK(new)
    BY <1>5 DEF Ended
  <2> QED
    BY <2>1, <2>2, <2>3, NumberedUpdate
<1>6. CASE Reject(l)
  <2>1. PICK new : new = RejectCommand(slots[l][s], r)
    OBVIOUS
  <2>2. Ended(slots[l][s], r, "not_sent", new)
    BY <1>1, <1>2, <1>3, <2>1, ReplyNumbers
  <2>3. Update(l, s, new)
    BY <1>1, <1>3, <1>6, <2>1 DEF Reject, InSlot, Update
  <2> QED
    BY <1>5, <2>2, <2>3
<1>7. CASE PrepFails(l)
  <2>1. PICK mid : mid = DropCommand(slots[l][s], r)
    OBVIOUS
  <2>2. Ended(slots[l][s], r, "dropped", mid)
    BY <1>1, <1>2, <1>3, <2>1, ReplyNumbers
  <2>3. PICK new : new = DropReceiver(mid, r)
    OBVIOUS
  <2>4. mid \in SlotType /\ SlotOK(mid)
    BY <2>2 DEF Ended
  <2>5. Released(mid, new) /\ new.channel = mid.channel
    BY <2>3, <2>4, ReleaseNumbers
  <2>6. Ended(slots[l][s], r, "dropped", new)
    BY <2>2, <2>5 DEF Ended, Released
  <2>7. Update(l, s, new)
    BY <1>1, <1>3, <1>7, <2>1, <2>3 DEF PrepFails, Update
  <2> QED
    BY <1>5, <2>6, <2>7
<1> QED
  BY <1>6, <1>7

\* checkout gives the slot the next number.
LEMMA FireNumbered ==
    ASSUME Inv, Numbered, NEW l \in Lanes, Fire(l) PROVE Numbered' /\ Truthful
<1>t. slots \in [Lanes -> [Pool -> SlotType]] /\ requests \in 0..MaxRequests
  BY DEF Inv, Typed
<1>1. PICK s \in Pool :
        /\ Reusable(slots[l][s])
        /\ slots' = [slots EXCEPT ![l][s] = Renew(slots[l][s], requests + 1)]
  BY <1>t DEF Fire
<1>2. cmd' = cmd /\ apc' = apc /\ requests' = requests + 1 /\ requests < MaxRequests
  BY DEF Fire, laneVars
<1>3. requests + 1 \in Requests
  BY <1>t, <1>2, LaneAssumption, SMTT(40) DEF Requests
<1>4. PICK new \in SlotType : SlotOK(new) /\ new = Renew(slots[l][s], requests + 1)
  <2>1. slots[l][s] \in SlotType
    BY <1>t
  <2> QED
    BY <1>1, <1>3, <2>1, RenewKeepsSlot
<1>5. new = [tx |-> {requests + 1}, rx |-> {requests + 1}, writers |-> {requests + 1},
             readers |-> {requests + 1}, channel |-> <<>>, timing |-> requests + 1]
  BY <1>1, <1>4 DEF Renew, Reusable
<1>6. /\ new.tx \subseteq new.writers /\ new.timing = requests + 1 /\ new.channel = <<>>
  BY <1>5
<1>7. Renumbers(l, s, new)
  BY <1>1, <1>2, <1>4, <1>6 DEF Renumbers, Update
<1>8. apc[l] = "replied" => cmd[l].slot # s
  <2>1. slots[l][s].writers = {}
    BY <1>1 DEF Reusable
  <2> QED
    BY <2>1 DEF Numbered, Numbers
<1>9. Replied(l, s, new)
  BY <1>2, <1>8 DEF Replied
<1> QED
  BY <1>4, <1>7, <1>9, NumberedUpdate

\* A discarded command held its Sender: it is not the one that was replied to.
LEMMA DiscardedNumbered ==
    ASSUME Inv, Numbered, NEW l \in Lanes, Discarded(l),
           apc' = apc, cmd' = cmd, requests' = requests
    PROVE  Numbered' /\ Truthful
<1>1. mail[l] \in Seq(Entries) /\ mail[l] # <<>>
  BY DEF Discarded, HeadReady, Inv, Typed
<1>2. 1 \in DOMAIN mail[l] /\ Head(mail[l]) = mail[l][1]
  BY <1>1, Shift
<1>3. Held(l, mail[l][1].cmd)
  BY <1>2 DEF Inv, HeldOK
<1>r. PICK r : r = mail[l][1].cmd.req
  OBVIOUS
<1>4. PICK s \in Pool : s = mail[l][1].cmd.slot /\ r = mail[l][1].cmd.req /\ r \in slots[l][s].tx
  BY <1>r, <1>3 DEF Held
<1>5. slots[l][s] \in SlotType /\ SlotOK(slots[l][s])
  BY DEF Inv, Typed
<1>6. PICK new : new = DropCommand(slots[l][s], r)
  OBVIOUS
<1>7. Ended(slots[l][s], r, "dropped", new)
  BY <1>4, <1>5, <1>6, ReplyNumbers
<1>8. Update(l, s, new)
  BY <1>2, <1>4, <1>6 DEF Discarded, InSlot, Update
<1>9. Renumbers(l, s, new)
  BY <1>7, <1>8, EndedRenumbers
<1>10. apc[l] = "replied" => cmd[l].slot # s
  BY <1>4 DEF Numbered, Numbers
<1>11. Replied(l, s, new)
  BY <1>10 DEF Replied
<1>12. new \in SlotType /\ SlotOK(new)
  BY <1>7 DEF Ended
<1> QED
  BY <1>9, <1>11, <1>12, NumberedUpdate

\* The completion handlers leave Sender and writer alone.
LEMMA CompleteNumbered ==
    ASSUME Inv, Numbered, NEW l \in Lanes, TakeReply(l) \/ ReadTiming(l) \/ Abandon(l)
    PROVE  Numbered' /\ Truthful
<1>1. cmd' = cmd /\ apc' = apc /\ requests' = requests
  BY DEF TakeReply, ReadTiming, Abandon, laneVars, bounds
<1>2. PICK s \in Pool : \E r :
        \/ r \in slots[l][s].rx /\ slots' = [slots EXCEPT ![l][s] = AcceptReply(slots[l][s], r)]
        \/ slots' = [slots EXCEPT ![l][s] = DropReader(slots[l][s], r)]
        \/ slots' = [slots EXCEPT ![l][s] = DropReceiver(slots[l][s], r)]
  <2>1. CASE TakeReply(l)
    BY <2>1 DEF TakeReply
  <2>2. CASE ReadTiming(l)
    BY <2>2 DEF ReadTiming
  <2>3. CASE Abandon(l)
    BY <2>3 DEF Abandon
  <2> QED
    BY <2>1, <2>2, <2>3
<1>3. slots[l][s] \in SlotType /\ SlotOK(slots[l][s])
  BY DEF Inv, Typed
<1>4. PICK new : /\ Update(l, s, new) /\ Released(slots[l][s], new)
                 /\ new.writers = slots[l][s].writers
  <2>1. PICK r :
        \/ r \in slots[l][s].rx /\ Update(l, s, AcceptReply(slots[l][s], r))
        \/ Update(l, s, DropReader(slots[l][s], r))
        \/ Update(l, s, DropReceiver(slots[l][s], r))
    BY <1>2 DEF Update
  <2>2. CASE r \in slots[l][s].rx /\ Update(l, s, AcceptReply(slots[l][s], r))
    BY <1>3, <2>2, ReleaseNumbers, ZenonT(40)
  <2>3. CASE Update(l, s, DropReader(slots[l][s], r))
    BY <1>3, <2>3, ReleaseNumbers, ZenonT(40)
  <2>4. CASE Update(l, s, DropReceiver(slots[l][s], r))
    BY <1>3, <2>4, ReleaseNumbers, ZenonT(40)
  <2> QED
    BY <2>1, <2>2, <2>3, <2>4
<1>5. slots[l][s].tx \subseteq slots[l][s].writers
  BY DEF Numbered, Numbers
<1>6. Renumbers(l, s, new)
  BY <1>1, <1>4, <1>5 DEF Renumbers, Released
<1>7. Replied(l, s, new)
  BY <1>1, <1>4 DEF Replied, Released
<1>8. new \in SlotType /\ SlotOK(new)
  BY <1>4 DEF Released
<1> QED
  BY <1>6, <1>7, <1>8, NumberedUpdate

\* The actor replies, and then lets the metadata go.
LEMMA RunNumbered ==
    ASSUME Inv, Numbered, NEW l \in Lanes, RunReply(l) \/ RunEnd(l)
    PROVE  Numbered' /\ Truthful
<1>t. /\ cmd \in [Lanes -> Commands] /\ apc \in [Lanes -> ActorSteps]
  BY DEF Inv, Typed
<1>1. CASE RunReply(l)
  <2>1. /\ requests' = requests /\ cmd' = cmd /\ apc' = [apc EXCEPT ![l] = "replied"] /\ Running(l)
    BY <1>1 DEF RunReply, bounds, Running
  <2>2. PICK s \in Pool, r \in Requests :
                           /\ s = cmd[l].slot /\ r = cmd[l].req
                           /\ r \in slots[l][s].tx
                           /\ slots[l][s] \in SlotType /\ SlotOK(slots[l][s])
    BY <2>1, RunningCommand
  <2>3. PICK new : new = Answer(slots[l][s], r)
    OBVIOUS
  <2>4. Update(l, s, new)
    BY <1>1, <2>2, <2>3 DEF RunReply, InSlot, Update
  <2>5. Ended(slots[l][s], r, "answer", new) /\ new.writers = slots[l][s].writers
    BY <2>2, <2>3, ReplyNumbers
  <2>6. Renumbers(l, s, new)
    BY <2>1, <2>4, <2>5, EndedRenumbers
  <2>7. cmd[l].req \in new.writers
    BY <2>2, <2>5 DEF Numbered, Numbers
  <2>8. \A k \in Lanes : k # l => apc'[k] = apc[k]
    BY <1>t, <2>1
  <2>9. new \in SlotType /\ SlotOK(new) /\ new.tx = {}
    BY <2>5 DEF Ended
  <2>10. Replied(l, s, new)
    BY <2>1, <2>2, <2>7, <2>8, <2>9 DEF Replied
  <2> QED
    BY <2>6, <2>9, <2>10, NumberedUpdate
<1>2. CASE RunEnd(l)
  <2>1. /\ requests' = requests /\ cmd' = [cmd EXCEPT ![l] = NoCommand]
        /\ apc' = [apc EXCEPT ![l] = "recv"] /\ apc[l] = "replied"
    BY <1>2 DEF RunEnd, bounds
  <2>2. PICK s \in Pool, r \in Requests : s = cmd[l].slot /\ r = cmd[l].req
    BY <2>1 DEF Inv, ActorOK
  <2>3. slots[l][s] \in SlotType /\ SlotOK(slots[l][s])
    BY DEF Inv, Typed
  <2>4. PICK new : new = DropWriter(slots[l][s], r)
    OBVIOUS
  <2>5. Update(l, s, new)
    BY <1>2, <2>2, <2>4 DEF RunEnd, InSlot, Update
  <2>6. Released(slots[l][s], new)
    BY <2>3, <2>4, ReleaseNumbers
  <2>7. slots[l][s].tx = {}
    BY <2>1, <2>2 DEF Numbered, Numbers
  <2>8. Renumbers(l, s, new)
    BY <2>1, <2>5, <2>6, <2>7 DEF Renumbers, Released
  <2>9. apc'[l] = "recv" /\ \A k \in Lanes : k # l => apc'[k] = apc[k] /\ cmd'[k] = cmd[k]
    BY <1>t, <2>1
  <2>10. Replied(l, s, new)
    BY <2>9 DEF Replied
  <2>11. new \in SlotType /\ SlotOK(new)
    BY <2>6 DEF Released
  <2> QED
    BY <2>8, <2>10, <2>11, NumberedUpdate
<1> QED
  BY <1>1, <1>2

\* A running command is dropped with its actor.
LEMMA DropNumbered ==
    ASSUME Inv, Numbered, NEW l \in Lanes, DropRunning(l), apc[l] # "replied", requests' = requests
    PROVE  Numbered' /\ Truthful
<1>t. /\ cmd \in [Lanes -> Commands] /\ apc \in [Lanes -> ActorSteps] /\ ActorOK(l)
  BY DEF Inv, Typed
<1>1. cmd' = [cmd EXCEPT ![l] = NoCommand] /\ apc' = [apc EXCEPT ![l] = "recv"]
  BY DEF DropRunning
<1>2. apc'[l] = "recv" /\ \A k \in Lanes : k # l => apc'[k] = apc[k] /\ cmd'[k] = cmd[k]
  BY <1>t, <1>1
<1>3. CASE apc[l] = "recv"
  <2>1. slots' = slots
    BY <1>t, <1>3 DEF DropRunning, ActorOK
  <2> QED
    BY <1>2, <2>1, NumberedSame
<1>4. CASE apc[l] # "recv"
  <2>1. Running(l)
    BY <1>t, <1>4 DEF Running, ActorSteps
  <2>2. PICK s \in Pool, r \in Requests :
                             /\ s = cmd[l].slot /\ r = cmd[l].req
                             /\ r \in slots[l][s].tx
                             /\ slots[l][s] \in SlotType /\ SlotOK(slots[l][s])
    BY <2>1, RunningCommand
  <2>3. PICK new : new = DropCommand(slots[l][s], r)
    OBVIOUS
  <2>4. cmd[l] # NoCommand
    BY <2>2, SMTT(40) DEF NoCommand, None, Pool
  <2>5. Update(l, s, new)
    BY <2>2, <2>3, <2>4 DEF DropRunning, InSlot, Update
  <2>6. Ended(slots[l][s], r, "dropped", new)
    BY <2>2, <2>3, ReplyNumbers
  <2>7. Renumbers(l, s, new)
    BY <2>5, <2>6, EndedRenumbers
  <2>8. Replied(l, s, new)
    BY <1>2 DEF Replied
  <2>9. new \in SlotType /\ SlotOK(new)
    BY <2>6 DEF Ended
  <2> QED
    BY <2>7, <2>8, <2>9, NumberedUpdate
<1> QED
  BY <1>3, <1>4

\* Every step keeps the numbers apart, and none writes a NotSent that is untrue.
LEMMA NumberedNext ==
    ASSUME Inv, Phases, Numbered, [Next]_vars PROVE Numbered' /\ Truthful
<1>t. cmd \in [Lanes -> Commands] /\ apc \in [Lanes -> ActorSteps] /\ actors \in Seq(Lanes)
  BY DEF Inv, Typed
<1>1. CASE slots' = slots /\ requests' = requests /\ cmd' = cmd /\ apc' = apc
  BY <1>1, NumberedSame
<1>2. ASSUME NEW l \in Lanes, SendCheck(l) \/ SendReserve(l) PROVE Numbered' /\ Truthful
  <2>1. InHand(l) /\ apc' = apc /\ cmd' = cmd /\ requests' = requests
    BY <1>2 DEF SendCheck, SendReserve, InHand, laneVars, bounds
  <2>2. slots' = slots \/ Reject(l)
    BY <1>2 DEF SendCheck, SendReserve
  <2> QED
    BY <1>1, <2>1, <2>2, HandNumbered
<1>3. ASSUME NEW l \in Lanes, PrepFails(l) PROVE Numbered' /\ Truthful
  <2>1. InHand(l) /\ apc' = apc /\ cmd' = cmd /\ requests' = requests
    BY <1>3 DEF PrepFails, InHand, laneVars
  <2> QED
    BY <1>3, <2>1, HandNumbered
<1>4. ASSUME (\E l \in Lanes : SendDiscard(l) \/ DiscardInbox(l)) \/ Discard
      PROVE  Numbered' /\ Truthful
  <2>1. apc' = apc /\ cmd' = cmd /\ requests' = requests
    BY <1>4 DEF SendDiscard, DiscardInbox, Discard, bounds
  <2>2. slots' = slots \/ \E k \in Lanes : Discarded(k)
    <3>1. ASSUME NEW l \in Lanes, SendDiscard(l) PROVE slots' = slots \/ Discarded(l)
      BY <3>1 DEF SendDiscard, DiscardTurn, Discarded
    <3>2. ASSUME NEW l \in Lanes, DiscardInbox(l)
          PROVE  target[l] \in Lanes /\ (slots' = slots \/ Discarded(target[l]))
      BY <3>2 DEF DiscardInbox, DiscardTurn, Discarded, Phases
    <3>3. ASSUME Discard PROVE closing.lane \in Lanes /\ (slots' = slots \/ Discarded(closing.lane))
      BY <3>3 DEF Discard, DiscardTurn, Discarded, Phases
    <3> QED
      BY <1>4, <3>1, <3>2, <3>3
  <2> QED
    BY <1>1, <2>1, <2>2, DiscardedNumbered
<1>5. ASSUME NEW l \in Lanes, NetworkAnswers(l) \/ RecvCommand(l) PROVE Numbered' /\ Truthful
  <2>1. /\ slots' = slots /\ requests' = requests
        /\ \/ cmd' = cmd /\ apc' = [apc EXCEPT ![l] = "answered"]
           \/ apc' = [apc EXCEPT ![l] = "network"] /\ \E c : cmd' = [cmd EXCEPT ![l] = c]
    BY <1>5 DEF NetworkAnswers, RecvCommand, bounds
  <2>2. \A k \in Lanes : apc'[k] = "replied" => apc[k] = "replied" /\ cmd'[k] = cmd[k]
    BY <1>t, <2>1
  <2> QED
    BY <2>1, <2>2, NumberedSame
<1>6. ASSUME NEW l \in Lanes, Panic(l) PROVE Numbered' /\ Truthful
  <2>1. DropRunning(l) /\ apc[l] # "replied" /\ requests' = requests
    BY <1>6 DEF Panic
  <2> QED
    BY <2>1, DropNumbered
<1>7. CASE DropActors
  <2>1. requests' = requests /\ dpc = "drop_actors"
    BY <1>7 DEF DropActors, bounds
  <2>2. CASE actors = <<>>
    BY <1>1, <1>7, <2>1, <2>2 DEF DropActors
  <2>3. CASE actors # <<>>
    <3>1. PICK l \in Lanes : l = Head(actors)
      BY <1>t, <2>3, QueueFacts
    <3>2. DropRunning(l)
      BY <1>7, <2>3, <3>1 DEF DropActors
    <3>3. apc[l] # "replied"
      BY <2>1, RepliedBlocks
    <3> QED
      BY <2>1, <3>2, <3>3, DropNumbered
  <2> QED
    BY <2>2, <2>3
<1>8. CASE UNCHANGED vars
  BY <1>1, <1>8 DEF vars, laneVars, bounds
<1>9. CASE Reactor \/ DriverDrop
  <2>1. CASE PollBegin \/ PollIncoming \/ PollEnd \/ CloseInbox \/ Retire \/ DropIncoming \/ DriverDrop
    BY <1>1, <2>1 DEF PollBegin, PollIncoming, PollEnd, CloseInbox, Retire, DropIncoming,
       DriverDrop, laneVars, bounds
  <2>2. ASSUME NEW l \in Lanes, RecvYield(l) \/ RecvEmpty(l) \/ RunPending(l)
        PROVE  Numbered' /\ Truthful
    BY <1>1, <2>2 DEF RecvYield, RecvEmpty, RunPending, laneVars, bounds
  <2> QED
    BY <1>4, <1>5, <1>7, <1>9, <2>1, <2>2, RunNumbered DEF Reactor, PollActor
<1>10. ASSUME NEW l \in Lanes, Register(l) PROVE Numbered' /\ Truthful
  <2>1. CASE ~DiscardInbox(l)
    BY <1>1, <1>10, <2>1 DEF Register, RegisterReserve, RegisterPush, RegisterUnreserve,
       RegisterPublish, RegisterRecheck, RegisterDrain, RegisterWake, DropInbox, laneVars, bounds
  <2> QED
    BY <1>4, <2>1
<1>11. ASSUME NEW l \in Lanes, Send(l) PROVE Numbered' /\ Truthful
  <2>1. CASE SendPublish(l) \/ SendRecheck(l) \/ SendWake(l) \/ DropLaneWake(l)
    BY <1>1, <2>1 DEF SendPublish, SendRecheck, SendWake, DropLaneWake, laneVars, bounds
  <2> QED
    BY <1>2, <1>4, <1>11, <2>1 DEF Send
<1>12. ASSUME NEW l \in Lanes, DropLane(l) PROVE Numbered' /\ Truthful
  BY <1>1, <1>12 DEF DropLane
<1>13. ASSUME NEW l \in Lanes, Complete(l) \/ Abandon(l) PROVE Numbered' /\ Truthful
  BY <1>13, CompleteNumbered DEF Complete
<1> QED
  BY <1>3, <1>5, <1>6, <1>8, <1>9, <1>10, <1>11, <1>12, <1>13, FireNumbered DEF Next

-----------------------------------------------------------------------------
(* The mailboxes of the actors *)

\* Where an owner has yet to look whether the mailbox was closed.
Sending == {"publish_command", "recheck_inbox"}

\* A command that is not published is the last of its mailbox; what a closed
\* mailbox still holds has a drainer, or an owner that will be one.
MailOK(l) ==
    /\ \A i \in DOMAIN mail[l] :
         ~mail[l][i].ready => i = Len(mail[l]) /\ opc[l] = "publish_command"
    /\ ~inbox[l] /\ mail[l] # <<>> => Drainers(l) # {} \/ opc[l] \in Sending

Mails == inbox \in [Lanes -> BOOLEAN] /\ \A l \in Lanes : MailOK(l)

LEMMA MailsInit ==
    Init => Mails
<1> SUFFICES ASSUME Init PROVE Mails
  OBVIOUS
<1>1. mail = [l \in Lanes |-> <<>>] /\ inbox = [l \in Lanes |-> TRUE]
  BY DEF Init
<1>2. DOMAIN (<<>>) = {}
  BY SMTT(40)
<1> QED
  BY <1>1, <1>2 DEF Mails, MailOK

\* A lane whose mailbox, flags and drainers are left alone.
LEMMA MailFrame ==
    ASSUME NEW k \in Lanes, MailOK(k), mail'[k] = mail[k], inbox'[k] = inbox[k],
           opc[k] \in Sending => opc'[k] = opc[k],
           Drainers(k) \subseteq Drainers(k)'
    PROVE  MailOK(k)'
<1>1. \A i \in DOMAIN mail'[k] : ~mail'[k][i].ready => i = Len(mail'[k]) /\ opc'[k] = "publish_command"
  BY DEF MailOK, Sending
<1>2. ~inbox'[k] /\ mail'[k] # <<>> => Drainers(k)' # {} \/ opc'[k] \in Sending
  BY DEF MailOK
<1> QED
  BY <1>1, <1>2 DEF MailOK

\* A head that is not published has its owner before the publication.
LEMMA UnreadyMail ==
    ASSUME Inv, NEW k \in Lanes, MailOK(k), ~HeadReady(mail[k]), mail[k] # <<>>
    PROVE  opc[k] = "publish_command"
<1>1. mail[k] \in Seq(Entries)
  BY DEF Inv, Typed
<1>2. 1 \in DOMAIN mail[k] /\ Head(mail[k]) = mail[k][1]
  BY <1>1, Shift
<1> QED
  BY <1>2 DEF MailOK, HeadReady

\* A command is taken or discarded from the head of a mailbox.
LEMMA MailTail ==
    ASSUME Inv, Mails, NEW t \in Lanes, HeadReady(mail[t]),
           mail' = [mail EXCEPT ![t] = Tail(@)], inbox' = inbox, opc' = opc, target' = target,
           \A k \in Lanes : Drainers(k) \subseteq Drainers(k)'
    PROVE  Mails'
<1>t. mail \in [Lanes -> Seq(Entries)] /\ mail[t] \in Seq(Entries) /\ mail[t] # <<>>
  BY DEF Inv, Typed, HeadReady
<1>1. MailOK(t)'
  <2>1. mail'[t] = Tail(mail[t])
    BY <1>t
  <2>2. ASSUME NEW i \in DOMAIN mail'[t], ~mail'[t][i].ready
        PROVE  i = Len(mail'[t]) /\ opc'[t] = "publish_command"
    <3>1. i \in Nat /\ i + 1 \in DOMAIN mail[t] /\ mail'[t][i] = mail[t][i + 1]
      BY <1>t, <2>1, <2>2, Shift
    <3>2. Len(mail'[t]) = Len(mail[t]) - 1
      BY <1>t, <2>1, Shift
    <3>3. i + 1 = Len(mail[t]) /\ opc[t] = "publish_command"
      BY <2>2, <3>1 DEF Mails, MailOK
    <3>4. i = Len(mail'[t])
      BY <3>1, <3>2, <3>3, SMTT(40)
    <3> QED
      BY <3>3, <3>4
  <2> QED
    BY <1>t, <2>2 DEF Mails, MailOK
<1>2. ASSUME NEW k \in Lanes, k # t PROVE MailOK(k)'
  <2>1. mail'[k] = mail[k]
    BY <1>t, <1>2
  <2> QED
    BY <1>2, <2>1, MailFrame DEF Mails
<1> QED
  BY <1>1, <1>2 DEF Mails

\* A drainer that counts another one is not alone.  (A fact about cardinalities,
\* which the theorems on finite sets at the end of the module settle.)
NotAlone == \A S, x : Cardinality(S) > 1 => S # {x}

\* A drainer stops at an empty mailbox, at an unpublished command, or because
\* another drainer is at work.
LEMMA MailDone ==
    ASSUME NotAlone, Inv, Mails, NEW t \in Lanes, NEW me, me \in Drainers(t),
           ~HeadReady(mail[t]) \/ Cardinality(Drainers(t)) > 1,
           mail' = mail, inbox' = inbox,
           Drainers(t) \ {me} \subseteq Drainers(t)',
           \A k \in Lanes \ {t} : Drainers(k) \subseteq Drainers(k)',
           \A k \in Lanes : opc[k] \in Sending => opc'[k] = opc[k]
    PROVE  Mails'
<1>1. ASSUME mail[t] # <<>> PROVE Drainers(t)' # {} \/ opc'[t] \in Sending
  <2>1. CASE ~HeadReady(mail[t])
    <3>1. opc[t] = "publish_command"
      BY <1>1, <2>1, UnreadyMail DEF Mails
    <3> QED
      BY <3>1 DEF Sending
  <2>2. CASE Cardinality(Drainers(t)) > 1
    BY <2>2 DEF NotAlone
  <2> QED
    BY <2>1, <2>2
<1>2. MailOK(t)'
  BY <1>1 DEF Mails, MailOK, Sending
<1>3. ASSUME NEW k \in Lanes, k # t PROVE MailOK(k)'
  BY <1>3, MailFrame DEF Mails
<1> QED
  BY <1>2, <1>3 DEF Mails

\* A drainer is the reactor, or an owner.
LEMMA DrainersAre ==
    ASSUME NEW k, NEW d
    PROVE  /\ d \in Drainers(k) <=>
                \/ dpc = "discard" /\ closing.lane = k /\ d = "reactor"
                \/ d \in Lanes /\ opc[d] = "discard" /\ d = k
                \/ d \in Lanes /\ opc[d] = "discard_inbox" /\ target[d] = k
           /\ d \in Drainers(k)' <=>
                \/ dpc' = "discard" /\ closing'.lane = k /\ d = "reactor"
                \/ d \in Lanes /\ opc'[d] = "discard" /\ d = k
                \/ d \in Lanes /\ opc'[d] = "discard_inbox" /\ target'[d] = k
<1>1. CASE dpc = "discard" /\ closing.lane = k
  BY <1>1, SMTT(40) DEF Drainers
<1>2. CASE ~(dpc = "discard" /\ closing.lane = k)
  BY <1>2, SMTT(40) DEF Drainers
<1> QED
  BY <1>1, <1>2

\* A drainer stays one until it leaves its loop.
LEMMA DrainersKept ==
    ASSUME NEW k, NEW d \in Drainers(k),
           dpc = "discard" /\ closing.lane = k /\ d = "reactor" =>
             dpc' = "discard" /\ closing'.lane = k,
           d \in Lanes /\ opc[d] \in {"discard", "discard_inbox"} =>
             opc'[d] = opc[d] /\ target'[d] = target[d]
    PROVE  d \in Drainers(k)'
  BY DrainersAre

\* An owner looks at the closure after it published its command, and whoever
\* closes a mailbox is a drainer of it.
LEMMA OwnerMails ==
    ASSUME NotAlone, Inv, Phases, Mails, NEW l \in Lanes, OwnerStep(l) PROVE Mails'
<1>t. /\ opc \in [Lanes -> OwnerSteps] /\ mail \in [Lanes -> Seq(Entries)]
      /\ inbox \in [Lanes -> BOOLEAN] /\ target \in [Lanes -> Lanes \union {None}]
      /\ own[l] \in Commands /\ \A k \in Lanes : MailOK(k)
  BY DEF Inv, Typed, Phases, Mails
<1>f. dpc' = dpc /\ closing' = closing
  BY OwnerFrame
<1>k. ASSUME opc[l] \notin {"discard", "discard_inbox"},
             \A j \in Lanes : j # l => opc'[j] = opc[j] /\ target'[j] = target[j]
      PROVE  \A k : Drainers(k) \subseteq Drainers(k)'
  <2> SUFFICES ASSUME NEW k, NEW d \in Drainers(k) PROVE d \in Drainers(k)'
    OBVIOUS
  <2> QED
    BY <1>f, <1>k, DrainersKept
<1>o. ASSUME NEW k \in Lanes, k # l, mail'[k] = mail[k], inbox'[k] = inbox[k], opc'[k] = opc[k],
             Drainers(k) \subseteq Drainers(k)'
      PROVE  MailOK(k)'
  BY <1>t, <1>o, MailFrame
<1>1. CASE SendReserve(l) /\ Len(mail[l]) < Mailbox
  <2> DEFINE e == [cmd |-> own[l], ready |-> FALSE]
  <2>1. /\ mail' = [mail EXCEPT ![l] = Append(@, e)] /\ opc[l] = "enqueue"
        /\ opc' = [opc EXCEPT ![l] = "publish_command"] /\ inbox' = inbox /\ target' = target
    BY <1>1 DEF SendReserve, GoTo
  <2>2. e \in Entries
    BY <1>t DEF Entries
  <2> HIDE DEF e
  <2>3. mail'[l] = Append(mail[l], e) /\ opc'[l] = "publish_command" /\ mail[l] \in Seq(Entries)
    BY <1>t, <2>1
  <2>4. \A i \in DOMAIN mail'[l] : \/ i \in DOMAIN mail[l] /\ mail'[l][i] = mail[l][i]
                                   \/ i = Len(mail'[l])
    BY <2>2, <2>3, SMTT(40)
  <2>5. MailOK(l)'
    <3>1. \A i \in DOMAIN mail'[l] : ~mail'[l][i].ready => i = Len(mail'[l])
      BY <1>t, <2>1, <2>4 DEF MailOK
    <3> QED
      BY <2>3, <3>1 DEF MailOK, Sending
  <2>6. \A k \in Lanes : k # l => mail'[k] = mail[k] /\ opc'[k] = opc[k]
    BY <1>t, <2>1
  <2>7. \A k : Drainers(k) \subseteq Drainers(k)'
    BY <1>k, <2>1, <2>6
  <2> QED
    BY <1>t, <1>o, <2>1, <2>5, <2>6, <2>7 DEF Mails
<1>2. CASE SendPublish(l)
  <2>1. /\ mail' = [mail EXCEPT ![l][Len(mail[l])].ready = TRUE] /\ opc[l] = "publish_command"
        /\ opc' = [opc EXCEPT ![l] = "recheck_inbox"] /\ inbox' = inbox /\ target' = target
    BY <1>2 DEF SendPublish, GoTo
  <2>2. /\ mail'[l] = [mail[l] EXCEPT ![Len(mail[l])] = [@ EXCEPT !.ready = TRUE]]
        /\ opc'[l] = "recheck_inbox" /\ mail[l] \in Seq(Entries)
    BY <1>t, <2>1
  <2>3. ASSUME NEW i \in DOMAIN mail'[l] PROVE mail'[l][i].ready
    <3>1. i \in DOMAIN mail[l]
      BY <2>2, <2>3
    <3>2. CASE i = Len(mail[l])
      <4>1. mail[l][i] \in Entries
        BY <2>2, <3>1, SMTT(40)
      <4>2. mail'[l][i] = [mail[l][i] EXCEPT !.ready = TRUE]
        BY <2>2, <3>1, <3>2
      <4> QED
        BY <4>1, <4>2 DEF Entries
    <3>3. CASE i # Len(mail[l])
      <4>1. mail'[l][i] = mail[l][i]
        BY <2>2, <3>1, <3>3
      <4> QED
        BY <1>t, <3>1, <3>3, <4>1 DEF MailOK
    <3> QED
      BY <3>2, <3>3
  <2>5. MailOK(l)'
    BY <2>2, <2>3 DEF MailOK, Sending
  <2>6. \A k \in Lanes : k # l => mail'[k] = mail[k] /\ opc'[k] = opc[k]
    BY <1>t, <2>1
  <2>7. \A k : Drainers(k) \subseteq Drainers(k)'
    BY <1>k, <2>1, <2>6
  <2> QED
    BY <1>t, <1>o, <2>1, <2>5, <2>6, <2>7 DEF Mails
<1>3. CASE SendRecheck(l)
  <2>1. /\ mail' = mail /\ inbox' = inbox /\ target' = target /\ opc[l] = "recheck_inbox"
        /\ opc' = [opc EXCEPT ![l] = IF inbox[l] THEN "wake" ELSE "discard"]
    BY <1>3 DEF SendRecheck, GoTo, laneVars
  <2>2. \A k \in Lanes : k # l => opc'[k] = opc[k]
    BY <1>t, <2>1
  <2>3. ~inbox[l] => Drainers(l)' # {}
    <3> SUFFICES ASSUME ~inbox[l] PROVE l \in Drainers(l)'
      OBVIOUS
    <3>1. opc'[l] = "discard"
      BY <1>t, <2>1
    <3> QED
      BY <3>1, DrainersAre
  <2>4. MailOK(l)'
    BY <1>t, <2>1, <2>3 DEF MailOK
  <2>5. \A k : Drainers(k) \subseteq Drainers(k)'
    BY <1>k, <2>1, <2>2
  <2> QED
    BY <1>t, <1>o, <2>1, <2>2, <2>4, <2>5 DEF Mails
<1>4. CASE DropInbox(l)
  <2>0. PICK t \in Lanes : t = target[l]
    BY <1>4 DEF DropInbox, Phases
  <2>1. /\ mail' = mail /\ inbox' = [inbox EXCEPT ![t] = FALSE] /\ target' = target
        /\ opc[l] = "drop_inbox" /\ opc' = [opc EXCEPT ![l] = "discard_inbox"]
    BY <1>4, <2>0 DEF DropInbox, GoTo
  <2>2. opc'[l] = "discard_inbox" /\ \A k \in Lanes : k # l => opc'[k] = opc[k]
    BY <1>t, <2>1
  <2>3. \A k : Drainers(k) \subseteq Drainers(k)'
    BY <1>k, <2>1, <2>2
  <2>4. l \in Drainers(t)'
    BY <2>0, <2>1, <2>2, DrainersAre
  <2>5. MailOK(t)'
    BY <1>t, <2>1, <2>2, <2>4 DEF MailOK
  <2>6. ASSUME NEW k \in Lanes, k # t PROVE MailOK(k)'
    <3>1. inbox'[k] = inbox[k]
      BY <1>t, <2>1, <2>6
    <3>2. opc[k] \in Sending => opc'[k] = opc[k]
      BY <2>1, <2>2 DEF Sending
    <3> QED
      BY <1>t, <2>1, <2>3, <3>1, <3>2, MailFrame
  <2>7. inbox' \in [Lanes -> BOOLEAN]
    BY <1>t, <2>1
  <2> QED
    BY <2>5, <2>6, <2>7 DEF Mails
<1>5. CASE DiscardInbox(l)
  <2>0. PICK t \in Lanes : t = target[l]
    BY <1>5 DEF DiscardInbox, Phases
  <2>1. inbox' = inbox /\ opc[l] = "discard_inbox"
    BY <1>5 DEF DiscardInbox
  <2>2. CASE /\ HeadReady(mail[t]) /\ mail' = [mail EXCEPT ![t] = Tail(@)]
             /\ opc' = opc /\ target' = target
    <3>1. \A k \in Lanes : Drainers(k) \subseteq Drainers(k)'
      BY <1>f, <2>2, DrainersKept
    <3> QED
      BY <2>1, <2>2, <3>1, MailTail
  <2>3. CASE /\ ~HeadReady(mail[t]) \/ Cardinality(Drainers(t)) > 1
             /\ mail' = mail /\ opc' = [opc EXCEPT ![l] = "drain"]
             /\ target' = [target EXCEPT ![l] = None]
    <3>1. \A j \in Lanes : j # l => opc'[j] = opc[j] /\ target'[j] = target[j]
      BY <1>t, <2>3
    <3>2. l \in Drainers(t)
      BY <2>0, <2>1, DrainersAre
    <3>3. ASSUME NEW k, NEW d \in Drainers(k), d # l PROVE d \in Drainers(k)'
      BY <1>f, <3>1, <3>3, DrainersKept
    <3>4. ASSUME NEW k \in Lanes \ {t}, NEW d \in Drainers(k) PROVE d \in Drainers(k)'
      <4>1. CASE d # l
        BY <3>3, <4>1
      <4>2. CASE d = l
        <5>1. dpc = "discard" /\ closing.lane = k /\ d = "reactor"
          BY <2>0, <2>1, <3>4, <4>2, DrainersAre
        <5> QED
          BY <1>f, <5>1, DrainersAre
      <4> QED
        BY <4>1, <4>2
    <3>5. \A k \in Lanes : opc[k] \in Sending => opc'[k] = opc[k]
      BY <2>1, <3>1 DEF Sending
    <3>6. Drainers(t) \ {l} \subseteq Drainers(t)'
      BY <3>3
    <3> QED
      BY <2>1, <2>3, <3>2, <3>4, <3>5, <3>6, MailDone
  <2> QED
    BY <1>5, <2>0, <2>2, <2>3 DEF DiscardInbox, DiscardTurn, GoTo
<1>6. CASE SendDiscard(l)
  <2>1. inbox' = inbox /\ opc[l] = "discard" /\ target' = target
    BY <1>6 DEF SendDiscard
  <2>2. CASE HeadReady(mail[l]) /\ mail' = [mail EXCEPT ![l] = Tail(@)] /\ opc' = opc
    <3>1. \A k \in Lanes : Drainers(k) \subseteq Drainers(k)'
      BY <1>f, <2>1, <2>2, DrainersKept
    <3> QED
      BY <2>1, <2>2, <3>1, MailTail
  <2>3. CASE /\ ~HeadReady(mail[l]) \/ Cardinality(Drainers(l)) > 1
             /\ mail' = mail /\ opc' = [opc EXCEPT ![l] = "wake"]
    <3>1. \A j \in Lanes : j # l => opc'[j] = opc[j]
      BY <1>t, <2>3
    <3>2. l \in Drainers(l)
      BY <2>1, DrainersAre
    <3>3. ASSUME NEW k, NEW d \in Drainers(k), d # l PROVE d \in Drainers(k)'
      BY <1>f, <2>1, <3>1, <3>3, DrainersKept
    <3>4. ASSUME NEW k \in Lanes \ {l}, NEW d \in Drainers(k) PROVE d \in Drainers(k)'
      <4>1. CASE d # l
        BY <3>3, <4>1
      <4>2. CASE d = l
        <5>0. l \in Drainers(k) /\ l # k /\ opc[l] # "discard_inbox"
          BY <2>1, <3>4, <4>2
        <5>1. dpc = "discard" /\ closing.lane = k /\ d = "reactor"
          BY <4>2, <5>0, DrainersAre
        <5> QED
          BY <1>f, <5>1, DrainersAre
      <4> QED
        BY <4>1, <4>2
    <3>5. \A k \in Lanes : opc[k] \in Sending => opc'[k] = opc[k]
      BY <2>1, <3>1 DEF Sending
    <3>6. Drainers(l) \ {l} \subseteq Drainers(l)'
      BY <3>3
    <3> QED
      BY <2>1, <2>3, <3>2, <3>4, <3>5, <3>6, MailDone
  <2> QED
    BY <1>6, <2>2, <2>3 DEF SendDiscard, DiscardTurn, GoTo
<1>7. CASE ~(\/ SendReserve(l) /\ Len(mail[l]) < Mailbox
             \/ SendPublish(l) \/ SendRecheck(l) \/ DropInbox(l) \/ DiscardInbox(l)
             \/ SendDiscard(l))
  <2>1. mail' = mail /\ inbox' = inbox
    BY <1>7 DEF OwnerStep, Register, RegisterReserve, RegisterPush, RegisterUnreserve,
       RegisterPublish, RegisterRecheck, RegisterDrain, RegisterWake, Send, SendCheck, SendReserve,
       SendWake, DropLaneWake, Complete, TakeReply, ReadTiming, NetworkAnswers, Fire, PrepFails,
       DropLane, Abandon, laneVars
  <2>2. \/ opc' = opc /\ target' = target
        \/ /\ opc[l] \notin Sending \union {"discard", "discard_inbox"}
           /\ \E pc \in OwnerSteps : opc' = [opc EXCEPT ![l] = pc]
           /\ target' = target \/ \E x \in Lanes : target' = [target EXCEPT ![l] = x]
    <3>1. CASE RegisterDrain(l) /\ HeadReady(incoming)
      <4>1. Head(incoming) \in Queued
        BY <3>1, QueueFacts DEF HeadReady, Inv, Typed
      <4>2. Head(incoming).lane \in Lanes
        BY <4>1 DEF Queued
      <4> QED
        BY <3>1, <4>2 DEF RegisterDrain, GoTo, Sending, OwnerSteps
    <3>2. CASE Register(l) /\ ~(RegisterDrain(l) /\ HeadReady(incoming))
      BY <1>7, <3>2 DEF Register, RegisterReserve, RegisterPush, RegisterUnreserve,
         RegisterPublish, RegisterRecheck, RegisterDrain, RegisterWake, GoTo, Sending, OwnerSteps
    <3>3. CASE Send(l)
      BY <1>7, <3>3 DEF Send, SendCheck, SendReserve, SendWake, DropLaneWake, Reject, GoTo,
         Sending, OwnerSteps
    <3>4. CASE ~Register(l) /\ ~Send(l)
      BY <3>4 DEF OwnerStep, Complete, TakeReply, ReadTiming, NetworkAnswers, Fire, PrepFails,
         DropLane, Abandon, ownerVars, GoTo, Sending, OwnerSteps
    <3> QED
      BY <3>1, <3>2, <3>3, <3>4
  <2>3. CASE opc' = opc /\ target' = target
    <3>1. \A k \in Lanes : Drainers(k) \subseteq Drainers(k)'
      BY <1>f, <2>3, DrainersKept
    <3> QED
      BY <1>t, <2>1, <2>3, <3>1, MailFrame DEF Mails
  <2>4. CASE /\ opc[l] \notin Sending \union {"discard", "discard_inbox"}
             /\ \E pc \in OwnerSteps : opc' = [opc EXCEPT ![l] = pc]
             /\ target' = target \/ \E x \in Lanes : target' = [target EXCEPT ![l] = x]
    <3>1. \A j \in Lanes : j # l => opc'[j] = opc[j] /\ target'[j] = target[j]
      BY <1>t, <2>4
    <3>2. \A k : Drainers(k) \subseteq Drainers(k)'
      BY <1>k, <2>4, <3>1
    <3> QED
      BY <1>t, <2>1, <2>4, <3>1, <3>2, MailFrame DEF Mails
  <2> QED
    BY <2>2, <2>3, <2>4
<1> QED
  BY <1>1, <1>2, <1>3, <1>4, <1>5, <1>6, <1>7

\* The reactor discards what the inbox it closes still holds.
LEMMA ReactorMails ==
    ASSUME NotAlone, Inv, Phases, Mails, ReactorStep PROVE Mails'
<1>t. inbox \in [Lanes -> BOOLEAN] /\ \A k \in Lanes : MailOK(k)
  BY DEF Mails
<1>1. opc' = opc /\ target' = target
  BY ReactorFrame
<1>2. CASE mail' = mail /\ inbox' = inbox /\ dpc # "discard"
  <2>1. \A k \in Lanes : Drainers(k) \subseteq Drainers(k)'
    BY <1>1, <1>2, DrainersKept
  <2> QED
    BY <1>t, <1>1, <1>2, <2>1, MailFrame DEF Mails
<1>3. ASSUME NEW l \in Lanes, RecvCommand(l) PROVE Mails'
  <2>1. /\ dpc = "actors" /\ inbox' = inbox /\ HeadReady(mail[l])
        /\ mail' = [mail EXCEPT ![l] = Tail(@)]
    BY <1>3 DEF RecvCommand, Polled
  <2>2. \A k \in Lanes : Drainers(k) \subseteq Drainers(k)'
    BY <1>1, <2>1, DrainersKept
  <2> QED
    BY <1>1, <2>1, <2>2, MailTail
<1>4. CASE Discard
  <2>0. PICK t \in Lanes : t = closing.lane
    BY <1>4 DEF Discard, Phases
  <2>1. dpc = "discard" /\ inbox' = inbox
    BY <1>4 DEF Discard
  <2>2. CASE /\ HeadReady(mail[t]) /\ mail' = [mail EXCEPT ![t] = Tail(@)]
             /\ dpc' = dpc /\ closing' = closing
    <3>1. \A k \in Lanes : Drainers(k) \subseteq Drainers(k)'
      BY <1>1, <2>1, <2>2, DrainersKept
    <3> QED
      BY <1>1, <2>1, <2>2, <3>1, MailTail
  <2>3. CASE /\ ~HeadReady(mail[t]) \/ Cardinality(Drainers(t)) > 1
             /\ mail' = mail
    <3>1. "reactor" \in Drainers(t)
      BY <2>0, <2>1, DrainersAre
    <3>2. Drainers(t) \ {"reactor"} \subseteq Drainers(t)'
      BY <1>1, DrainersKept
    <3>3. \A k \in Lanes \ {t} : Drainers(k) \subseteq Drainers(k)'
      BY <1>1, <2>0, DrainersKept
    <3> QED
      BY <1>1, <2>1, <2>3, <3>1, <3>2, <3>3, MailDone
  <2> QED
    BY <1>4, <2>0, <2>2, <2>3 DEF Discard, DiscardTurn
<1>5. CASE CloseInbox
  <2>0. PICK t \in Lanes : t = closing.lane
    BY <1>5 DEF CloseInbox, Phases
  <2>1. /\ dpc = "close" /\ dpc' = "discard" /\ closing' = closing /\ mail' = mail
        /\ inbox' = [inbox EXCEPT ![t] = FALSE]
    BY <1>5, <2>0 DEF CloseInbox
  <2>2. "reactor" \in Drainers(t)'
    BY <2>0, <2>1, DrainersAre
  <2>3. \A k \in Lanes : Drainers(k) \subseteq Drainers(k)'
    BY <1>1, <2>1, DrainersKept
  <2>4. MailOK(t)'
    BY <1>t, <1>1, <2>1, <2>2 DEF MailOK
  <2>5. ASSUME NEW k \in Lanes, k # t PROVE MailOK(k)'
    <3>1. inbox'[k] = inbox[k]
      BY <1>t, <2>1, <2>5
    <3> QED
      BY <1>t, <1>1, <2>1, <2>3, <3>1, MailFrame
  <2>6. inbox' \in [Lanes -> BOOLEAN]
    BY <1>t, <2>1
  <2> QED
    BY <2>4, <2>5, <2>6 DEF Mails
<1>6. \/ mail' = mail /\ inbox' = inbox /\ dpc # "discard"
      \/ \E l \in Lanes : RecvCommand(l)
      \/ Discard \/ CloseInbox
  <2>1. CASE \E l \in Lanes : PollActor(l) \/ Panic(l)
    BY <2>1, ZenonT(40) DEF PollActor, RecvYield, RecvEmpty, RunPending, RunReply, RunEnd, Panic, Polled,
       laneVars
  <2>2. CASE PollBegin \/ PollIncoming \/ PollEnd \/ Retire \/ DriverDrop
    BY <2>2 DEF PollBegin, PollIncoming, PollEnd, Retire, DriverDrop, laneVars
  <2>3. CASE DropIncoming \/ DropActors
    BY <2>3 DEF DropIncoming, DropActors, laneVars
  <2> QED
    BY <2>1, <2>2, <2>3 DEF ReactorStep, Reactor
<1> QED
  BY <1>2, <1>3, <1>4, <1>5, <1>6

LEMMA MailsNext ==
    ASSUME NotAlone, Inv, Phases, Mails, [Next]_vars PROVE Mails'
<1>1. CASE UNCHANGED vars
  BY <1>1 DEF vars, reactorVars, laneVars, ownerVars, Mails, MailOK, Drainers
<1>2. Next => ReactorStep \/ \E l \in Lanes : OwnerStep(l)
  BY DEF Next, ReactorStep, OwnerStep
<1> QED
  BY <1>1, <1>2, OwnerMails, ReactorMails

\* What the invariants of the two kinds of queue say together.
LEMMA QueuesImply ==
    ASSUME Inv, IncomingOK, Mails PROVE NoneStranded
<1>1. ASSUME dpc = "dead",
             \A l \in Lanes : opc[l] \notin {"push", "publish", "recheck", "drain",
                                             "drop_inbox", "discard_inbox"}
      PROVE  incoming = <<>>
  BY <1>1 DEF IncomingOK, PastIncoming, Looking
<1>2. \A l \in Lanes :
        (~inbox[l] /\ Drainers(l) = {} /\ opc[l] \notin {"publish_command", "recheck_inbox"})
          => mail[l] = <<>>
  BY DEF Mails, MailOK, Sending
<1> QED
  BY <1>1, <1>2 DEF NoneStranded

-----------------------------------------------------------------------------
(* The reservations of actors *)

INSTANCE FiniteSetTheorems

\* The owners that hold a reservation and have no actor in the queue.
Registering == {l \in Lanes : opc[l] \in {"push", "unreserve"}}

\* Every reservation is accounted for while the root lives.
Reserving ==
    /\ reserved \in Int /\ resident \in Int /\ reserved <= Capacity
    /\ IsFiniteSet(Registering)
    /\ alive => reserved = resident + Cardinality(Registering) + Len(incoming) + Len(actors)

LEMMA ReservingInit ==
    Init => Reserving
<1> SUFFICES ASSUME Init PROVE Reserving
  OBVIOUS
<1>1. /\ resident \in 0..(Capacity - 1) /\ reserved = resident
      /\ incoming = <<>> /\ actors = <<>> /\ opc = [l \in Lanes |-> "new"]
  BY DEF Init
<1>2. Registering = {}
  BY <1>1 DEF Registering
<1>3. IsFiniteSet(Registering) /\ Cardinality(Registering) = 0
  BY <1>2, FS_EmptySet
<1>4. Len(incoming) = 0 /\ Len(actors) = 0
  BY <1>1, SMTT(40)
<1>5. reserved \in Int /\ resident \in Int /\ reserved <= Capacity /\ reserved = resident + 0 + 0 + 0
  BY <1>1, LaneAssumption, SMTT(40)
<1> QED
  BY <1>3, <1>4, <1>5 DEF Reserving

\* One owner takes up or ends its registration, one actor moves, or nothing does.
LEMMA ReservingSame ==
    ASSUME Reserving, reserved' = reserved, resident' = resident, Registering' = Registering,
           alive' => alive /\ Len(incoming') + Len(actors') = Len(incoming) + Len(actors),
           Len(incoming) \in Nat, Len(actors) \in Nat, Len(incoming') \in Nat, Len(actors') \in Nat
    PROVE  Reserving'
<1>1. Cardinality(Registering) \in Nat
  BY FS_CardinalityType DEF Reserving
<1>2. /\ reserved \in Int /\ resident \in Int /\ reserved <= Capacity /\ IsFiniteSet(Registering)
      /\ (alive => reserved = resident + Cardinality(Registering) + Len(incoming) + Len(actors))
  BY DEF Reserving
<1>3. alive' => reserved = resident + Cardinality(Registering) + Len(incoming') + Len(actors')
  BY <1>1, <1>2, SMTT(60)
<1>4. Cardinality(Registering') = Cardinality(Registering) /\ IsFiniteSet(Registering')
  BY <1>2
<1> QED
  BY <1>2, <1>3, <1>4 DEF Reserving

\* register and its rollback move the reservation with the registration.
LEMMA OwnerReserving ==
    ASSUME Inv, Phases, Reserving, NEW l \in Lanes, OwnerStep(l) PROVE Reserving'
<1> DEFINE c == Cardinality(Registering)
<1>t. /\ opc \in [Lanes -> OwnerSteps] /\ incoming \in Seq(Queued) /\ actors \in Seq(Lanes)
      /\ IsFiniteSet(Registering)
  BY DEF Inv, Typed, Reserving
<1>n. Len(incoming) \in Nat /\ Len(actors) \in Nat
  BY <1>t, SMTT(40)
<1>r. /\ reserved \in Int /\ resident \in Int /\ reserved <= Capacity /\ Capacity \in Nat
      /\ (alive => reserved = resident + c + Len(incoming) + Len(actors))
  BY LaneAssumption DEF Reserving
<1>c. c \in Nat
  BY <1>t, FS_CardinalityType
<1> HIDE DEF c
<1>1. alive' = alive /\ actors' = actors /\ resident' = resident
  BY OwnerFrame
<1>2. ASSUME NEW S, Registering' = S, IsFiniteSet(S),
             reserved' \in Int, reserved' <= Capacity,
             alive => reserved' = resident + Cardinality(S) + Len(incoming') + Len(actors)
      PROVE  Reserving'
  BY <1>1, <1>2, <1>r DEF Reserving
<1>3. CASE RegisterReserve(l) /\ reserved' = reserved + 1
  <2>1. /\ opc[l] = "new" /\ reserved < Capacity /\ incoming' = incoming
        /\ opc' = [opc EXCEPT ![l] = "push"]
    <3>1. reserved + 1 # reserved
      BY <1>r, SMTT(40)
    <3> QED
      BY <1>3, <3>1 DEF RegisterReserve, GoTo
  <2>2. Registering' = Registering \union {l} /\ l \notin Registering
    BY <1>t, <2>1 DEF Registering
  <2>3. IsFiniteSet(Registering \union {l}) /\ Cardinality(Registering \union {l}) = c + 1
    BY <1>t, <2>2, FS_AddElement DEF c
  <2>4. /\ reserved + 1 \in Int /\ reserved + 1 <= Capacity
        /\ (alive => reserved + 1 = resident + (c + 1) + Len(incoming) + Len(actors))
    BY <1>n, <1>r, <1>c, <2>1, SMTT(40)
  <2> QED
    BY <1>2, <1>3, <2>1, <2>2, <2>3, <2>4
<1>4. CASE RegisterPush(l) /\ incoming' # incoming
  <2>1. /\ opc[l] = "push" /\ reserved' = reserved /\ opc' = [opc EXCEPT ![l] = "publish"]
        /\ incoming' = Append(incoming, [lane |-> l, ready |-> FALSE])
    BY <1>4 DEF RegisterPush, GoTo
  <2>2. Registering' = Registering \ {l} /\ l \in Registering
    BY <1>t, <2>1 DEF Registering
  <2>3. IsFiniteSet(Registering \ {l}) /\ Cardinality(Registering \ {l}) = c - 1
    BY <1>t, <2>2, FS_RemoveElement DEF c
  <2>4. Len(incoming') = Len(incoming) + 1
    BY <1>t, <2>1, SMTT(40)
  <2>5. alive => reserved = resident + (c - 1) + (Len(incoming) + 1) + Len(actors)
    BY <1>n, <1>r, <1>c, SMTT(40)
  <2> QED
    BY <1>2, <1>r, <2>1, <2>2, <2>3, <2>4, <2>5
<1>5. CASE RegisterUnreserve(l)
  <2>1. /\ opc[l] = "unreserve" /\ reserved' = reserved - 1 /\ opc' = [opc EXCEPT ![l] = "refused"]
        /\ incoming' = incoming
    BY <1>5 DEF RegisterUnreserve, GoTo
  <2>2. Registering' = Registering \ {l} /\ l \in Registering
    BY <1>t, <2>1 DEF Registering
  <2>3. IsFiniteSet(Registering \ {l}) /\ Cardinality(Registering \ {l}) = c - 1
    BY <1>t, <2>2, FS_RemoveElement DEF c
  <2>4. /\ reserved - 1 \in Int /\ reserved - 1 <= Capacity
        /\ (alive => reserved - 1 = resident + (c - 1) + Len(incoming) + Len(actors))
    BY <1>n, <1>r, <1>c, SMTT(40)
  <2> QED
    BY <1>2, <2>1, <2>2, <2>3, <2>4
<1>6. CASE RegisterPublish(l)
  <2>1. /\ reserved' = reserved /\ opc[l] = "publish" /\ opc' = [opc EXCEPT ![l] = "recheck"]
    BY <1>6 DEF RegisterPublish, GoTo
  <2>2. Registering' = Registering
    BY <1>t, <2>1 DEF Registering
  <2>3. Len(incoming') = Len(incoming)
    BY <1>t, <1>6, SMTT(40) DEF RegisterPublish
  <2> QED
    BY <1>n, <1>1, <2>1, <2>2, <2>3, ReservingSame
<1>7. CASE RegisterDrain(l)
  <2>1. /\ reserved' = reserved /\ opc[l] = "drain" /\ ~alive
        /\ opc' \in {[opc EXCEPT ![l] = "drop_inbox"], [opc EXCEPT ![l] = "refused"]}
    BY <1>7 DEF RegisterDrain, GoTo, Phases, Dropping
  <2>2. Registering' = Registering
    BY <1>t, <2>1 DEF Registering
  <2> QED
    BY <1>2, <1>r, <1>t, <2>1, <2>2
<1>8. CASE /\ ~RegisterUnreserve(l) /\ ~RegisterPublish(l) /\ ~RegisterDrain(l)
           /\ reserved' = reserved /\ incoming' = incoming
  <2>1. Registering' = Registering
    <3>1. CASE RegisterReserve(l) \/ RegisterPush(l)
      <4>1. \/ opc[l] = "new" /\ opc' = [opc EXCEPT ![l] = "refused"]
            \/ opc[l] = "push" /\ opc' = [opc EXCEPT ![l] = "unreserve"]
        <5>1. CASE RegisterReserve(l)
          <6>1. reserved + 1 # reserved
            BY <1>r, SMTT(40)
          <6> QED
            BY <1>8, <5>1, <6>1 DEF RegisterReserve, GoTo
        <5>2. CASE RegisterPush(l)
          <6>1. Len(Append(incoming, [lane |-> l, ready |-> FALSE])) # Len(incoming)
            BY <1>t, SMTT(40)
          <6> QED
            BY <1>8, <5>2, <6>1 DEF RegisterPush, GoTo
        <5> QED
          BY <3>1, <5>1, <5>2
      <4> QED
        BY <1>t, <4>1 DEF Registering
    <3>2. CASE ~RegisterReserve(l) /\ ~RegisterPush(l)
      <4>1. \/ opc' = opc
            \/ /\ opc[l] \notin {"push", "unreserve"}
               /\ \E pc \in OwnerSteps \ {"push", "unreserve"} : opc' = [opc EXCEPT ![l] = pc]
        BY <1>8, <3>2, Elsewhere
      <4> QED
        BY <1>t, <4>1 DEF Registering
    <3> QED
      BY <3>1, <3>2
  <2> QED
    BY <1>1, <1>8, <1>n, <2>1, ReservingSame
<1>9. \/ RegisterReserve(l) /\ reserved' = reserved + 1
      \/ RegisterPush(l) /\ incoming' # incoming
      \/ RegisterUnreserve(l) \/ RegisterPublish(l) \/ RegisterDrain(l)
      \/ reserved' = reserved /\ incoming' = incoming
  <2>1. CASE Register(l)
    BY <2>1 DEF Register, RegisterReserve, RegisterPush, RegisterRecheck, RegisterWake,
       DropInbox, DiscardInbox, rootVars
  <2>2. CASE Send(l)
    BY <2>2 DEF Send, SendCheck, SendReserve, SendPublish, SendRecheck, SendDiscard, SendWake,
       DropLaneWake, rootVars
  <2>3. CASE ~Register(l) /\ ~Send(l)
    BY <2>3 DEF OwnerStep, Complete, TakeReply, ReadTiming, NetworkAnswers, Fire, PrepFails,
       DropLane, Abandon, rootVars
  <2> QED
    BY <2>1, <2>2, <2>3
<1> QED
  BY <1>3, <1>4, <1>5, <1>6, <1>7, <1>8, <1>9

\* The reactor moves a queued actor into its list, or returns the reservation of
\* the actor it retires.
LEMMA ReactorReserving ==
    ASSUME Inv, Phases, Reserving, ReactorStep PROVE Reserving'
<1>t. /\ incoming \in Seq(Queued) /\ actors \in Seq(Lanes) /\ index \in Nat \ {0}
      /\ (Ending => ~alive)
  BY DEF Inv, Typed, Phases
<1>p. incoming' \in Seq(Queued) /\ actors' \in Seq(Lanes)
  <2>1. Next
    BY DEF Next, ReactorStep
  <2> QED
    BY <2>1, NextInv DEF Inv, Typed
<1>n. /\ Len(incoming) \in Nat /\ Len(actors) \in Nat
      /\ Len(incoming') \in Nat /\ Len(actors') \in Nat
  BY <1>t, <1>p, SMTT(40)
<1>1. opc' = opc /\ resident' = resident
  BY ReactorFrame
<1>2. Registering' = Registering
  BY <1>1 DEF Registering
<1>3. CASE reserved' = reserved /\ (alive' => alive /\ incoming' = incoming /\ actors' = actors)
  <2>1. alive' => alive /\ Len(incoming') + Len(actors') = Len(incoming) + Len(actors)
    BY <1>3
  <2> QED
    BY <1>1, <1>2, <1>3, <1>n, <2>1, ReservingSame
<1>4. CASE PollIncoming /\ HeadReady(incoming)
  <2>1. /\ alive' = alive /\ reserved' = reserved
        /\ incoming' = Tail(incoming) /\ actors' = Append(actors, Head(incoming).lane)
        /\ incoming # <<>>
    BY <1>4 DEF PollIncoming, HeadReady
  <2>2. Len(incoming') + Len(actors') = Len(incoming) + Len(actors)
    BY <1>t, <1>p, <2>1, SMTT(40)
  <2> QED
    BY <1>1, <1>2, <1>n, <2>1, <2>2, ReservingSame
<1>5. CASE Retire
  <2>1. /\ dpc = "retire" /\ alive' = alive /\ incoming' = incoming
        /\ actors' = SwapRemove(actors, index) /\ reserved' = reserved - 1
    BY <1>5 DEF Retire
  <2>2. index <= Len(actors)
    BY <2>1 DEF Phases
  <2>3. Len(actors') = Len(actors) - 1
    BY <1>t, <2>1, <2>2, SMTT(40) DEF SwapRemove
  <2>4. /\ reserved \in Int /\ resident \in Int /\ reserved <= Capacity /\ Capacity \in Nat
        /\ IsFiniteSet(Registering)
        /\ (alive => reserved = resident + Cardinality(Registering) + Len(incoming) + Len(actors))
    BY LaneAssumption DEF Reserving
  <2>5. Cardinality(Registering) \in Nat
    BY <2>4, FS_CardinalityType
  <2>6. /\ reserved - 1 \in Int /\ reserved - 1 <= Capacity
        /\ (alive => reserved - 1 =
                       resident + Cardinality(Registering) + Len(incoming) + (Len(actors) - 1))
    BY <1>n, <2>4, <2>5, SMTT(40)
  <2> QED
    BY <1>1, <1>2, <2>1, <2>3, <2>4, <2>6 DEF Reserving
<1>6. \/ reserved' = reserved /\ (alive' => alive /\ incoming' = incoming /\ actors' = actors)
      \/ PollIncoming /\ HeadReady(incoming)
      \/ Retire
  <2>1. CASE \E l \in Lanes : PollActor(l) \/ Panic(l)
    BY <2>1, ZenonT(40) DEF PollActor, RecvYield, RecvCommand, RecvEmpty, RunPending, RunReply, RunEnd,
       Panic, rootVars
  <2>2. CASE PollBegin \/ PollIncoming \/ PollEnd \/ CloseInbox \/ Discard
    BY <2>2 DEF PollBegin, PollIncoming, PollEnd, CloseInbox, Discard, rootVars
  <2>3. CASE DriverDrop
    BY <2>3 DEF DriverDrop
  <2>4. CASE DropIncoming \/ DropActors
    BY <1>t, <2>4 DEF DropIncoming, DropActors, Ending, Teardown
  <2> QED
    BY <2>1, <2>2, <2>3, <2>4 DEF ReactorStep, Reactor
<1> QED
  BY <1>3, <1>4, <1>5, <1>6

LEMMA ReservingNext ==
    ASSUME Inv, Phases, Reserving, [Next]_vars PROVE Reserving'
<1>1. CASE UNCHANGED vars
  BY <1>1 DEF vars, rootVars, ownerVars, bounds, Reserving, Registering
<1>2. Next => ReactorStep \/ \E l \in Lanes : OwnerStep(l)
  BY DEF Next, ReactorStep, OwnerStep
<1> QED
  BY <1>1, <1>2, OwnerReserving, ReactorReserving

-----------------------------------------------------------------------------
(* The safety of the root *)

\* Slots and commands, the phases of the root, and what is said of the queues,
\* the reservations, the actors and the request numbers.
RootInv ==
    /\ Inv /\ Phases /\ Reserving /\ IncomingOK /\ Mails
    /\ Once /\ Served /\ Numbered

LEMMA RootInvariant == Spec => []RootInv
<1>0. NotAlone
  <2>1. \A x : Cardinality({x}) = 1
    BY FS_Singleton
  <2>2. ~(1 > 1)
    BY SMTT(40)
  <2> QED
    BY <2>1, <2>2 DEF NotAlone
<1>1. Init => RootInv
  BY InitInv, PhasesInit, ReservingInit, IncomingInit, MailsInit, OnceInit, ServedInit,
     NumberedInit DEF RootInv
<1>2. RootInv /\ [Next]_vars => RootInv'
  <2> SUFFICES ASSUME RootInv, [Next]_vars PROVE RootInv'
    OBVIOUS
  <2>1. Inv /\ Phases /\ Reserving /\ IncomingOK /\ Mails /\ Once /\ Served /\ Numbered
    BY DEF RootInv
  <2>2. Inv' /\ Phases' /\ Reserving' /\ IncomingOK'
    BY <2>1, NextInv, PhasesNext, ReservingNext, IncomingNext
  <2>3. Mails' /\ Once' /\ Served' /\ Numbered'
    BY <1>0, <2>1, MailsNext, OnceNext, ServedNext, NumberedNext
  <2> QED
    BY <2>2, <2>3 DEF RootInv
<1> QED
  BY <1>1, <1>2, PTL DEF Spec

\* However registrations, rollbacks, retirements and polls interleave, the
\* reservations never exceed the capacity and none is leaked while the root
\* lives (register, Driver::poll).
THEOREM CapacityIsExact == Spec => []CapacityExact
<1>1. RootInv => CapacityExact
  BY DEF RootInv, Reserving, Registering, CapacityExact
<1> QED
  BY RootInvariant, <1>1, PTL

\* No actor stays in the queue of a dropped Driver and no command in a closed
\* mailbox once the threads that touch them are done: the second look of
\* register and of try_send closes the race with the end of the root.
THEOREM NothingIsStranded == Spec => []NoneStranded
<1>1. RootInv => NoneStranded
  BY QueuesImply DEF RootInv
<1> QED
  BY RootInvariant, <1>1, PTL

\* A request that an actor has begun is never answered NotSent (Command::reject).
THEOREM NotSentMeansNeverRan == Spec => NotSentNeverRan
<1>1. RootInv /\ [Next]_vars => Truthful
  BY NumberedNext DEF RootInv
<1>2. Truthful =>
        [\A l \in Lanes, s \in Pool :
           slots'[l][s].channel = <<[req |-> cmd[l].req, kind |-> "not_sent"]>> =>
             slots'[l][s].channel = slots[l][s].channel]_vars
  BY DEF Truthful
<1> QED
  BY RootInvariant, <1>1, <1>2, PTL DEF Spec, NotSentNeverRan

\* An actor that completed a command in a poll of the root begins no other in
\* that poll, whatever is in its mailbox (Inbox::recv).
THEOREM OneCommandPerPoll == Spec => OnePerPoll
<1>1. RootInv /\ [Next]_vars =>
        [\A l \in Lanes : cmd'[l] # cmd[l] /\ cmd'[l] # NoCommand => l \notin served]_vars
  BY BeginsOnce DEF RootInv
<1> QED
  BY RootInvariant, <1>1, PTL DEF Spec, OnePerPoll
=============================================================================
