-------------------------- MODULE PollChannelProofs --------------------------
(***************************************************************************)
(* Safety of the poll channel for any number of senders, any capacity and  *)
(* any number of values and control-state changes.  Shared.senders counts  *)
(* the live handles, delivered and queued values are the reservations in   *)
(* order, and what appears after the receiver has armed the wake and       *)
(* looked has a notifier that has yet to exchange the armed word.          *)
(***************************************************************************)
EXTENDS PollChannel, FiniteSetTheorems, TLAPS

\* Leaves are first order unless they cite SMTT (arithmetic, sequences) or PTL.
USE ZenonT(40)

SenderSteps == {"absent", "idle", "push", "publish", "notify", "wake", "lastNotify", "lastWake", "gone"}
NotifierSteps == {"idle", "pending", "notify", "wake"}
ReceiverSteps == {"top", "interrupted", "control", "refresh", "pop", "senders", "repop", "arm",
                  "nap", "wait", "parked", "resumed", "cancel", "disconnected", "gone"}

Entries == [val : Nat, ready : BOOLEAN]

Data ==
    /\ queue \in Seq(Entries) /\ delivered \in Seq(Nat) /\ sval \in [Senders -> Nat]
    /\ accepted \in Nat /\ state \in Nat /\ seen \in Nat
Flags ==
    /\ receiver_alive \in BOOLEAN /\ bound \in BOOLEAN /\ armed \in BOOLEAN
    /\ pending \in BOOLEAN /\ interruptible \in BOOLEAN /\ rechecking \in BOOLEAN
Steps ==
    spc \in [Senders -> SenderSteps] /\ npc \in NotifierSteps /\ rpc \in ReceiverSteps
TypeOK == Data /\ Flags /\ Steps

\* The handles that Shared.senders counts.
Live == {s \in Senders : spc[s] \in {"idle", "push", "publish", "notify", "wake"}}
Counted == IsFiniteSet(Live) /\ senders = Cardinality(Live)

\* Delivered and queued values are the reservations in order, and a value that
\* is not ready has a sender about to publish it.
InOrder ==
    /\ Len(delivered) + Len(queue) = accepted
    /\ \A i \in DOMAIN delivered : delivered[i] = i
    /\ \A i \in DOMAIN queue :
         /\ queue[i].val = Len(delivered) + i
         /\ ~queue[i].ready => \E s \in Senders : spc[s] = "publish" /\ sval[s] = queue[i].val

\* The senders stay gone once the receiver has noticed it.
Ended ==
    /\ rpc \in {"repop", "disconnected"} => senders = 0
    /\ rpc = "disconnected" => queue = <<>>

\* Between arm() and cancel(), while the word is armed, what has appeared since
\* the receiver looked has a notifier that has yet to exchange the word.
Covered ==
    /\ rechecking \/ rpc = "arm" => bound
    /\ rpc \in {"interrupted", "arm", "nap"} => ~rechecking
    /\ rpc \in {"wait", "parked"} => rechecking
    /\ armed => /\ bound /\ rechecking
                /\ rpc \in {"control", "refresh", "pop", "senders", "repop",
                            "wait", "parked", "resumed", "cancel"}
    /\ armed /\ pending => npc = "notify" \/ rpc \in {"control", "resumed", "cancel"}
    /\ armed /\ HeadReady /\ rpc \in {"senders", "wait", "parked"} =>
         \E s \in Senders : spc[s] = "notify"
    /\ armed /\ senders = 0 /\ rpc \in {"wait", "parked"} =>
         \E s \in Senders : spc[s] = "lastNotify"
    /\ rpc = "parked" /\ ~armed => BeforeWake

IInv == TypeOK /\ Counted /\ InOrder /\ Ended /\ Covered

-----------------------------------------------------------------------------
(* Types *)

LEMMA InitType == Init => TypeOK
<1> SUFFICES ASSUME Init PROVE TypeOK
  OBVIOUS
<1>1. Data
  BY SMTT(40) DEF Init, Data, Entries
<1>2. Flags
  BY DEF Init, Flags
<1>3. Steps
  BY DEF Init, Steps, SenderSteps, NotifierSteps, ReceiverSteps
<1> QED
  BY <1>1, <1>2, <1>3 DEF TypeOK

LEMMA FlagsNext == Flags /\ [Next]_vars => Flags'
<1> SUFFICES ASSUME Flags, [Next]_vars PROVE Flags'
  OBVIOUS
<1> USE DEF Flags, wvars, svars, nvars, rvars
<1>1. ASSUME NEW s \in Senders,
             \/ SendCheckAlive(s) \/ SendReserve(s) \/ SendFull(s) \/ SendPublish(s)
             \/ SendWake(s) \/ DropSender(s) \/ LastWake(s) \/ \E t \in Senders : Clone(s, t)
      PROVE  Flags'
  BY <1>1 DEF SendCheckAlive, SendReserve, SendFull, SendPublish, SendWake, DropSender,
     LastWake, Clone
<1>2. ASSUME NEW s \in Senders, SendNotify(s) \/ LastNotify(s) PROVE Flags'
  BY <1>2 DEF SendNotify, LastNotify, Swap
<1>3. CASE StateChange \/ StateSetPending \/ StateNotify \/ StateWake
  BY <1>3 DEF StateChange, StateSetPending, StateNotify, StateWake, Swap
<1>4. CASE BindWake \/ LoopTop \/ TakePending \/ Refresh \/ TryRecvPop \/ TryRecvSenders
  BY <1>4 DEF BindWake, LoopTop, TakePending, Refresh, TryRecvPop, TryRecvSenders
<1>5. CASE TryRecvRetry
  <2>1. armed' \in BOOLEAN
    BY <1>5 DEF TryRecvRetry
  <2> QED
    BY <1>5, <2>1 DEF TryRecvRetry
<1>6. CASE Arm \/ Nap \/ Wait \/ Cancel \/ WaitExpires \/ DropReceiver
  BY <1>6 DEF Arm, Nap, Wait, Cancel, WaitExpires, DropReceiver
<1>7. CASE UNCHANGED vars
  BY <1>7 DEF vars
<1> QED
  BY <1>1, <1>2, <1>3, <1>4, <1>5, <1>6, <1>7
     DEF Next, SenderStep, NotifierStep, ReceiverStep

LEMMA StepsNext == Steps /\ [Next]_vars => Steps'
<1> SUFFICES ASSUME Steps, [Next]_vars PROVE Steps'
  OBVIOUS
<1>m. ASSUME NEW s \in Senders, NEW v \in SenderSteps, spc' = [spc EXCEPT ![s] = v]
      PROVE  spc' \in [Senders -> SenderSteps]
  BY <1>m DEF Steps
<1>w. ASSUME FutexWake PROVE rpc' \in ReceiverSteps
  BY <1>w DEF Steps, FutexWake, ReceiverSteps
<1>1. ASSUME NEW s \in Senders, NEW t \in Senders, Clone(s, t) PROVE Steps'
  BY <1>1, <1>m DEF Clone, SenderSteps, Steps, nvars, rvars
<1>2. ASSUME NEW s \in Senders,
             \/ SendCheckAlive(s) \/ SendReserve(s) \/ SendFull(s) \/ SendPublish(s)
             \/ SendWake(s) \/ DropSender(s) \/ LastWake(s) \/ SendNotify(s) \/ LastNotify(s)
      PROVE  Steps'
  <2>1. \E v \in SenderSteps : spc' = [spc EXCEPT ![s] = v]
    BY <1>2 DEF SendCheckAlive, SendReserve, SendFull, SendPublish, SendWake, DropSender,
       LastWake, SendNotify, LastNotify, Swap, SenderSteps
  <2>2. npc' = npc /\ rpc' \in ReceiverSteps
    BY <1>2, <1>w DEF SendCheckAlive, SendReserve, SendFull, SendPublish, SendWake, DropSender,
       LastWake, SendNotify, LastNotify, nvars, rvars, Steps
  <2> QED
    BY <2>1, <2>2, <1>m DEF Steps
<1>3. CASE StateChange \/ StateSetPending \/ StateNotify \/ StateWake
  <2>1. npc' \in NotifierSteps /\ spc' = spc
    BY <1>3 DEF StateChange, StateSetPending, StateNotify, StateWake, Swap, NotifierSteps, svars
  <2>2. rpc' \in ReceiverSteps
    BY <1>3, <1>w DEF StateChange, StateSetPending, StateNotify, StateWake, rvars, Steps
  <2> QED
    BY <2>1, <2>2 DEF Steps
<1>4. CASE BindWake \/ ReceiverStep \/ WaitExpires \/ DropReceiver
  <2>1. spc' = spc /\ npc' = npc
    BY <1>4 DEF BindWake, ReceiverStep, LoopTop, TakePending, Refresh, TryRecvPop,
       TryRecvSenders, TryRecvRetry, Arm, Nap, Wait, Cancel, WaitExpires, DropReceiver, svars, nvars
  <2>2. rpc' \in ReceiverSteps
    BY <1>4 DEF BindWake, ReceiverStep, LoopTop, TakePending, Refresh, TryRecvPop, Deliver,
       TryRecvSenders, AfterEmpty, TryRecvRetry, Arm, Nap, Wait, Cancel, WaitExpires,
       DropReceiver, rvars, ReceiverSteps, Steps
  <2> QED
    BY <2>1, <2>2 DEF Steps
<1>5. CASE UNCHANGED vars
  BY <1>5 DEF vars, svars, nvars, rvars, Steps
<1> QED
  BY <1>1, <1>2, <1>3, <1>4, <1>5 DEF Next, SenderStep, NotifierStep

\* What a reservation appends.
LEMMA Reserved ==
    ASSUME Data, NEW s \in Senders, SendReserve(s)
    PROVE  \E e \in Entries : e.val = accepted + 1 /\ ~e.ready /\ queue' = Append(queue, e)
<1> DEFINE e == [val |-> accepted + 1, ready |-> FALSE]
<1>1. accepted + 1 \in Nat
  BY SMTT(40) DEF Data
<1>2. e \in Entries
  BY <1>1 DEF Entries
<1>3. e.val = accepted + 1 /\ ~e.ready /\ queue' = Append(queue, e)
  BY DEF SendReserve
<1> HIDE DEF e
<1> QED
  BY <1>2, <1>3

LEMMA DataNext == Data /\ [Next]_vars => Data'
<1> SUFFICES ASSUME Data, [Next]_vars PROVE Data'
  OBVIOUS
<1>d. ASSUME HeadReady, Deliver PROVE queue' \in Seq(Entries) /\ delivered' \in Seq(Nat)
  <2>1. queue # <<>>
    BY <1>d DEF HeadReady
  <2>2. Head(queue) \in Entries /\ queue' \in Seq(Entries)
    BY <1>d, <2>1, SMTT(40) DEF Deliver, Data
  <2>3. PICK v \in Nat : v = Head(queue).val
    BY <2>2 DEF Entries
  <2> QED
    BY <1>d, <2>2, <2>3, SMTT(40) DEF Deliver, Data
<1>1. ASSUME NEW s \in Senders, SendReserve(s) PROVE Data'
  <2>1. PICK e \in Entries : queue' = Append(queue, e)
    BY <1>1, Reserved
  <2>2. queue' \in Seq(Entries)
    BY <2>1, SMTT(40) DEF Data
  <2> QED
    BY <1>1, <2>2, SMTT(40) DEF SendReserve, Data, nvars, rvars
<1>2. ASSUME NEW s \in Senders, SendPublish(s) PROVE Data'
  <2>1. \A i \in DOMAIN queue : queue[i] \in Entries
    BY SMTT(40) DEF Data
  <2>2. \A i \in DOMAIN queue : queue'[i] \in Entries
    BY <1>2, <2>1 DEF SendPublish, Entries
  <2>3. Len(queue) \in Nat /\ DOMAIN queue = 1..Len(queue)
    BY SMTT(40) DEF Data
  <2>4. queue' \in [1..Len(queue) -> Entries]
    BY <1>2, <2>2, <2>3 DEF SendPublish
  <2>5. queue' \in Seq(Entries)
    BY <2>3, <2>4, SMTT(40)
  <2>6. sval' \in [Senders -> Nat]
    BY <1>2, SMTT(40) DEF SendPublish, Data
  <2> QED
    BY <1>2, <2>5, <2>6 DEF SendPublish, Data, nvars, rvars
<1>3. ASSUME NEW s \in Senders, DropSender(s) \/ \E t \in Senders : Clone(s, t)
      PROVE  Data'
  BY <1>3 DEF DropSender, Clone, Data, nvars, rvars
<1>4. ASSUME NEW s \in Senders,
             \/ SendCheckAlive(s) \/ SendFull(s) \/ SendNotify(s) \/ SendWake(s)
             \/ LastNotify(s) \/ LastWake(s)
      PROVE  Data'
  BY <1>4 DEF SendCheckAlive, SendFull, SendNotify, SendWake, LastNotify, LastWake, Data,
     nvars, rvars
<1>5. CASE StateChange
  BY <1>5, SMTT(40) DEF StateChange, Data, svars, rvars
<1>6. CASE NotifierStep \/ BindWake \/ LoopTop \/ TryRecvSenders \/ Arm \/ Wait \/ Cancel
           \/ WaitExpires \/ DropReceiver \/ TakePending \/ Refresh \/ Nap
  BY <1>6 DEF NotifierStep, StateSetPending, StateNotify, StateWake, BindWake, LoopTop,
     TryRecvSenders, Arm, Wait, Cancel, WaitExpires, DropReceiver, TakePending, Refresh, Nap,
     Data, svars, nvars, rvars
<1>7. CASE TryRecvPop \/ TryRecvRetry
  BY <1>7, <1>d DEF TryRecvPop, TryRecvRetry, Data, svars, nvars
<1>8. CASE UNCHANGED vars
  BY <1>8 DEF vars, svars, nvars, rvars, Data
<1> QED
  BY <1>1, <1>2, <1>3, <1>4, <1>5, <1>6, <1>7, <1>8 DEF Next, SenderStep, ReceiverStep

-----------------------------------------------------------------------------
(* The count of senders *)

LEMMA CountedInit == Init => Counted
<1> SUFFICES ASSUME Init PROVE Counted
  OBVIOUS
<1>1. Live = {First}
  BY ChannelAssumption DEF Init, Live
<1>2. IsFiniteSet({First}) /\ Cardinality({First}) = 1
  BY FS_Singleton
<1> QED
  BY <1>1, <1>2 DEF Init, Counted

\* A handle that is only moved on is counted as before.
LEMMA CountedSame ==
    ASSUME Steps, Counted, senders' = senders, NEW s \in Senders, NEW v,
           spc' = [spc EXCEPT ![s] = v],
           s \in Live <=> v \in {"idle", "push", "publish", "notify", "wake"}
    PROVE  Counted'
<1>1. Live' = Live
  BY DEF Live, Steps
<1> QED
  BY <1>1 DEF Counted

LEMMA CountedNext ==
    ASSUME Steps, Counted, [Next]_vars PROVE Counted'
<1>1. ASSUME NEW s \in Senders, NEW t \in Senders, Clone(s, t) PROVE Counted'
  <2>1. Live' = Live \union {t} /\ t \notin Live
    BY <1>1 DEF Clone, Live, Steps
  <2>2. IsFiniteSet(Live \union {t}) /\ Cardinality(Live \union {t}) = Cardinality(Live) + 1
    BY <2>1, FS_AddElement DEF Counted
  <2> QED
    BY <1>1, <2>1, <2>2 DEF Clone, Counted
<1>2. ASSUME NEW s \in Senders, DropSender(s) PROVE Counted'
  <2>1. Live' = Live \ {s} /\ s \in Live
    BY <1>2 DEF DropSender, Live, Steps
  <2>2. IsFiniteSet(Live \ {s}) /\ Cardinality(Live \ {s}) = Cardinality(Live) - 1
    BY <2>1, FS_RemoveElement DEF Counted
  <2> QED
    BY <1>2, <2>1, <2>2 DEF DropSender, Counted
<1>3. ASSUME NEW s \in Senders, SendCheckAlive(s) \/ SenderStep(s) PROVE Counted'
  <2>1. senders' = senders
    BY <1>3 DEF SendCheckAlive, SenderStep, SendReserve, SendFull, SendPublish, SendNotify,
       SendWake, LastNotify, LastWake
  <2>2. CASE LastNotify(s) \/ LastWake(s)
    <3>1. s \notin Live
      BY <2>2 DEF LastNotify, LastWake, Live
    <3>2. PICK v \in {"gone", "lastWake"} : spc' = [spc EXCEPT ![s] = v]
      BY <2>2 DEF LastNotify, LastWake, Swap
    <3> QED
      BY <2>1, <3>1, <3>2, CountedSame
  <2>3. CASE ~(LastNotify(s) \/ LastWake(s))
    <3>1. s \in Live
      BY <1>3, <2>3 DEF SendCheckAlive, SenderStep, SendReserve, SendFull, SendPublish,
         SendNotify, SendWake, Live
    <3>2. PICK v \in {"idle", "push", "publish", "notify", "wake"} : spc' = [spc EXCEPT ![s] = v]
      BY <1>3, <2>3 DEF SendCheckAlive, SenderStep, SendReserve, SendFull, SendPublish,
         SendNotify, SendWake, Swap
    <3> QED
      BY <2>1, <3>1, <3>2, CountedSame
  <2> QED
    BY <2>2, <2>3
<1>4. CASE senders' = senders /\ spc' = spc
  BY <1>4 DEF Counted, Live
<1>5. CASE StateChange \/ NotifierStep \/ BindWake \/ ReceiverStep \/ WaitExpires \/ DropReceiver
  BY <1>4, <1>5 DEF StateChange, NotifierStep, StateSetPending, StateNotify, StateWake, BindWake,
     ReceiverStep, LoopTop, TakePending, Refresh, TryRecvPop, TryRecvSenders, TryRecvRetry, Arm,
     Nap, Wait, Cancel, WaitExpires, DropReceiver, svars
<1>6. CASE UNCHANGED vars
  BY <1>4, <1>6 DEF vars, svars
<1> QED
  BY <1>1, <1>2, <1>3, <1>5, <1>6 DEF Next

\* With no sender left, no handle is counted.
LEMMA NoneLive ==
    ASSUME Counted
    PROVE  senders \in Nat /\ (senders = 0 => \A s \in Senders : s \notin Live)
  BY FS_CardinalityType, FS_EmptySet DEF Counted

-----------------------------------------------------------------------------
(* The order of the values *)

LEMMA InOrderInit == Init => InOrder
  BY SMTT(40) DEF Init, InOrder

LEMMA InOrderSame ==
    ASSUME InOrder, queue' = queue, delivered' = delivered, accepted' = accepted, sval' = sval,
           \A s \in Senders : spc[s] = "publish" => spc'[s] = "publish"
    PROVE  InOrder'
<1>1. \A i \in DOMAIN queue :
        ~queue[i].ready => \E s \in Senders : spc'[s] = "publish" /\ sval[s] = queue[i].val
  BY DEF InOrder
<1> QED
  BY <1>1 DEF InOrder

\* What Tail and Head do to lengths and indices.
LEMMA Shifted ==
    ASSUME NEW S, NEW q \in Seq(S), q # <<>>
    PROVE  /\ Tail(q) \in Seq(S) /\ Len(q) = Len(Tail(q)) + 1 /\ Len(Tail(q)) \in Nat
           /\ \A i \in DOMAIN Tail(q) : i \in Nat /\ i + 1 \in DOMAIN q /\ Tail(q)[i] = q[i + 1]
           /\ Head(q) = q[1] /\ 1 \in DOMAIN q /\ Head(q) \in S
  BY SMTT(40)

LEMMA DeliverInOrder ==
    ASSUME Data, InOrder, HeadReady, Deliver, accepted' = accepted, sval' = sval, spc' = spc
    PROVE  InOrder'
<1>1. queue # <<>> /\ queue \in Seq(Entries) /\ delivered \in Seq(Nat)
  BY DEF HeadReady, Data
<1>h. Head(queue) = queue[1] /\ 1 \in DOMAIN queue /\ Head(queue) \in Entries
  BY <1>1, Shifted
<1>2. PICK v \in Nat : v = Head(queue).val /\ v = Len(delivered) + 1
  <2>1. Head(queue).val \in Nat
    BY <1>h DEF Entries
  <2>2. Head(queue).val = Len(delivered) + 1
    BY <1>h DEF InOrder
  <2> QED
    BY <2>1, <2>2
<1>3. queue' = Tail(queue) /\ delivered' = Append(delivered, v)
  BY <1>2 DEF Deliver
<1>4. /\ Len(queue) = Len(queue') + 1 /\ Len(queue') \in Nat
      /\ \A i \in DOMAIN queue' : i \in Nat /\ i + 1 \in DOMAIN queue /\ queue'[i] = queue[i + 1]
  BY <1>1, <1>3, Shifted
<1>5. /\ Len(delivered') = Len(delivered) + 1 /\ Len(delivered) \in Nat
      /\ \A i \in DOMAIN delivered' : i = Len(delivered) + 1 \/ i \in DOMAIN delivered
      /\ \A i \in DOMAIN delivered : delivered'[i] = delivered[i]
      /\ delivered'[Len(delivered) + 1] = v
  BY <1>1, <1>3, SMTT(40)
<1>6. Len(delivered') + Len(queue') = accepted'
  BY <1>4, <1>5, SMTT(40) DEF InOrder
<1>7. \A i \in DOMAIN delivered' : delivered'[i] = i
  BY <1>2, <1>5 DEF InOrder
<1>8. ASSUME NEW i \in DOMAIN queue' PROVE queue'[i].val = Len(delivered') + i
  <2>1. queue[i + 1].val = Len(delivered) + (i + 1)
    BY <1>4 DEF InOrder
  <2> QED
    BY <1>4, <1>5, <2>1, SMTT(40)
<1>9. ASSUME NEW i \in DOMAIN queue', ~queue'[i].ready
      PROVE  \E s \in Senders : spc'[s] = "publish" /\ sval'[s] = queue'[i].val
  <2>1. PICK s \in Senders : spc[s] = "publish" /\ sval[s] = queue[i + 1].val
    BY <1>4, <1>9 DEF InOrder
  <2> QED
    BY <1>4, <2>1
<1> QED
  BY <1>6, <1>7, <1>8, <1>9 DEF InOrder

LEMMA ReserveInOrder ==
    ASSUME Data, Steps, InOrder, NEW s \in Senders, SendReserve(s) PROVE InOrder'
<1>1. PICK e \in Entries : e.val = accepted + 1 /\ ~e.ready /\ queue' = Append(queue, e)
  BY Reserved
<1>2. queue \in Seq(Entries) /\ delivered \in Seq(Nat) /\ accepted \in Nat
  BY DEF Data
<1>3. /\ Len(queue') = Len(queue) + 1 /\ Len(queue) \in Nat
      /\ \A i \in DOMAIN queue' : i = Len(queue) + 1 \/ i \in DOMAIN queue
      /\ \A i \in DOMAIN queue : queue'[i] = queue[i]
      /\ queue'[Len(queue) + 1] = e
  BY <1>1, <1>2, SMTT(40)
<1>4. delivered' = delivered /\ accepted' = accepted + 1 /\ Len(delivered) \in Nat
  BY <1>2, SMTT(40) DEF SendReserve, rvars
<1>5. Len(delivered) + Len(queue') = accepted + 1
  <2>1. Len(delivered) + Len(queue) = accepted
    BY DEF InOrder
  <2> QED
    BY <1>2, <1>3, <1>4, <2>1, SMTT(40)
<1>6. e.val = Len(delivered) + (Len(queue) + 1)
  BY <1>1, <1>3, <1>5
<1>7. spc'[s] = "publish" /\ sval'[s] = e.val
  BY <1>1 DEF SendReserve, Data, Steps
<1>8. \A t \in Senders : spc[t] = "publish" => spc'[t] = "publish" /\ sval'[t] = sval[t]
  BY DEF SendReserve, Data, Steps
<1>9. ASSUME NEW i \in DOMAIN queue' PROVE
             /\ queue'[i].val = Len(delivered) + i
             /\ ~queue'[i].ready => \E t \in Senders : spc'[t] = "publish" /\ sval'[t] = queue'[i].val
  <2>1. CASE i \in DOMAIN queue
    <3>1. queue'[i] = queue[i]
      BY <1>3, <2>1
    <3>2. queue[i].val = Len(delivered) + i
      BY <2>1 DEF InOrder
    <3>3. ~queue[i].ready => \E t \in Senders : spc[t] = "publish" /\ sval[t] = queue[i].val
      BY <2>1 DEF InOrder
    <3> QED
      BY <1>8, <3>1, <3>2, <3>3
  <2>2. CASE i = Len(queue) + 1
    BY <1>3, <1>6, <1>7, <2>2
  <2> QED
    BY <1>3, <2>1, <2>2
<1> QED
  BY <1>4, <1>5, <1>9 DEF InOrder

LEMMA PublishInOrder ==
    ASSUME Data, Steps, InOrder, NEW s \in Senders, SendPublish(s) PROVE InOrder'
<1>1. /\ DOMAIN queue' = DOMAIN queue /\ delivered' = delivered /\ accepted' = accepted
      /\ \A i \in DOMAIN queue : queue'[i] = IF queue[i].val = sval[s]
                                             THEN [queue[i] EXCEPT !.ready = TRUE] ELSE queue[i]
  BY DEF SendPublish, rvars
<1>2. \A i \in DOMAIN queue : queue[i] \in Entries
  BY SMTT(40) DEF Data
<1>3. \A i \in DOMAIN queue :
        /\ queue'[i].val = queue[i].val
        /\ ~queue'[i].ready => ~queue[i].ready /\ queue[i].val # sval[s]
  BY <1>1, <1>2 DEF Entries
<1>4. Len(queue') = Len(queue)
  <2>1. Len(queue) \in Nat /\ DOMAIN queue = 1..Len(queue)
    BY SMTT(40) DEF Data
  <2>2. queue' = [i \in 1..Len(queue) |-> queue'[i]]
    BY <1>1, <2>1 DEF SendPublish
  <2> QED
    BY <2>1, <2>2, SMTT(40)
<1>5. \A t \in Senders : spc[t] = "publish" /\ sval[t] # sval[s] => spc'[t] = "publish" /\ sval'[t] = sval[t]
  BY DEF SendPublish, Data, Steps
<1>6. ASSUME NEW i \in DOMAIN queue, ~queue'[i].ready
      PROVE  \E t \in Senders : spc'[t] = "publish" /\ sval'[t] = queue[i].val
  <2>1. PICK t \in Senders : spc[t] = "publish" /\ sval[t] = queue[i].val
    BY <1>3, <1>6 DEF InOrder
  <2> QED
    BY <1>3, <1>5, <1>6, <2>1
<1> QED
  BY <1>1, <1>3, <1>4, <1>6 DEF InOrder

LEMMA InOrderNext ==
    ASSUME Data, Steps, InOrder, [Next]_vars PROVE InOrder'
<1>1. ASSUME NEW s \in Senders,
             \/ SendCheckAlive(s) \/ SendFull(s) \/ SendNotify(s) \/ SendWake(s) \/ LastNotify(s)
             \/ LastWake(s) \/ DropSender(s) \/ \E t \in Senders : Clone(s, t)
      PROVE  InOrder'
  <2>1. queue' = queue /\ delivered' = delivered /\ accepted' = accepted /\ sval' = sval
    BY <1>1 DEF SendCheckAlive, SendFull, SendNotify, SendWake, LastNotify, LastWake, DropSender,
       Clone, rvars
  <2>2. \A t \in Senders : spc[t] = "publish" => spc'[t] = "publish"
    BY <1>1 DEF SendCheckAlive, SendFull, SendNotify, SendWake, LastNotify, LastWake, DropSender,
       Clone, Swap, Steps
  <2> QED
    BY <2>1, <2>2, InOrderSame
<1>2. CASE /\ queue' = queue /\ delivered' = delivered /\ accepted' = accepted /\ sval' = sval
           /\ spc' = spc
  BY <1>2, InOrderSame
<1>3. CASE StateChange \/ NotifierStep \/ BindWake \/ WaitExpires \/ DropReceiver
  BY <1>2, <1>3 DEF StateChange, NotifierStep, StateSetPending, StateNotify, StateWake, BindWake,
     WaitExpires, DropReceiver, svars, rvars
<1>4. CASE LoopTop \/ TakePending \/ Refresh \/ TryRecvSenders \/ Arm \/ Nap \/ Wait \/ Cancel
  BY <1>2, <1>4 DEF LoopTop, TakePending, Refresh, TryRecvSenders, Arm, Nap, Wait, Cancel, svars
<1>5. CASE TryRecvPop \/ TryRecvRetry
  BY <1>2, <1>5, DeliverInOrder DEF TryRecvPop, TryRecvRetry, svars
<1>6. CASE UNCHANGED vars
  BY <1>2, <1>6 DEF vars, svars, rvars
<1> QED
  BY <1>1, <1>3, <1>4, <1>5, <1>6, ReserveInOrder, PublishInOrder
     DEF Next, SenderStep, ReceiverStep

-----------------------------------------------------------------------------
(* The end of the senders *)

LEMMA EndedNext ==
    ASSUME Data, Counted, InOrder, Ended, [Next]_vars PROVE Ended'
<1>1. ASSUME NEW s \in Senders,
             \/ SendCheckAlive(s) \/ SendReserve(s) \/ SendFull(s) \/ SendPublish(s)
             \/ SendNotify(s) \/ SendWake(s) \/ DropSender(s) \/ \E t \in Senders : Clone(s, t)
      PROVE  Ended'
  <2>1. s \in Live
    BY <1>1 DEF SendCheckAlive, SendReserve, SendFull, SendPublish, SendNotify, SendWake,
       DropSender, Clone, Live
  <2>2. rpc \notin {"repop", "disconnected"}
    BY <2>1, NoneLive DEF Ended
  <2>3. rpc' = rpc \/ rpc' = "resumed"
    BY <1>1 DEF SendCheckAlive, SendReserve, SendFull, SendPublish, SendNotify, SendWake,
       DropSender, Clone, FutexWake, rvars
  <2> QED
    BY <2>2, <2>3 DEF Ended
<1>2. ASSUME NEW s \in Senders, LastNotify(s) \/ LastWake(s) PROVE Ended'
  BY <1>2 DEF LastNotify, LastWake, FutexWake, rvars, Ended
<1>3. CASE StateChange \/ NotifierStep
  BY <1>3 DEF StateChange, NotifierStep, StateSetPending, StateNotify, StateWake, FutexWake,
     rvars, svars, Ended
<1>4. CASE TryRecvSenders
  BY <1>4 DEF TryRecvSenders, AfterEmpty, svars, Ended
<1>5. CASE TryRecvRetry
  <2>1. senders = 0 /\ senders' = senders
    BY <1>5 DEF TryRecvRetry, Ended, svars
  <2>2. ASSUME ~HeadReady PROVE queue = <<>>
    <3>1. CASE queue # <<>>
      <4>1. Head(queue) = queue[1] /\ 1 \in DOMAIN queue
        BY <3>1, Shifted DEF Data
      <4>2. ~queue[1].ready
        BY <2>2, <3>1, <4>1 DEF HeadReady
      <4>3. PICK s \in Senders : spc[s] = "publish"
        BY <4>1, <4>2 DEF InOrder
      <4>4. s \in Live
        BY <4>3 DEF Live
      <4> QED
        BY <2>1, <4>4, NoneLive
    <3> QED
      BY <3>1
  <2> QED
    BY <1>5, <2>1, <2>2 DEF TryRecvRetry, Deliver, Ended
<1>6. CASE BindWake \/ LoopTop \/ TakePending \/ Refresh \/ TryRecvPop \/ Arm \/ Nap \/ Wait
           \/ Cancel \/ WaitExpires \/ DropReceiver
  BY <1>6 DEF BindWake, LoopTop, TakePending, Refresh, TryRecvPop, Deliver, Arm, Nap, Wait,
     Cancel, WaitExpires, DropReceiver, svars, rvars, Ended
<1>7. CASE UNCHANGED vars
  BY <1>7 DEF vars, svars, rvars, Ended
<1> QED
  BY <1>1, <1>2, <1>3, <1>4, <1>5, <1>6, <1>7 DEF Next, SenderStep, ReceiverStep

-----------------------------------------------------------------------------
(* No wake-up is lost *)

\* A sender that leaves the wake alone: a value it makes ready, and the end it
\* brings about, leave it with the notification still to do.
LEMMA CoveredBySender ==
    ASSUME Covered, rpc' = rpc, rechecking' = rechecking, bound' = bound, armed' = armed,
           pending' = pending, npc' = npc,
           \A t \in Senders : spc[t] \in {"notify", "lastNotify", "wake", "lastWake"} =>
                                spc'[t] = spc[t],
           HeadReady' => HeadReady \/ \E t \in Senders : spc'[t] = "notify",
           senders' = 0 => senders = 0 \/ \E t \in Senders : spc'[t] = "lastNotify"
    PROVE  Covered'
<1>1. (\E t \in Senders : spc[t] = "notify") => \E t \in Senders : spc'[t] = "notify"
  OBVIOUS
<1>2. (\E t \in Senders : spc[t] = "lastNotify") => \E t \in Senders : spc'[t] = "lastNotify"
  OBVIOUS
<1>3. BeforeWake => BeforeWake'
  BY DEF BeforeWake
<1> QED
  BY <1>1, <1>2, <1>3 DEF Covered

\* The word is clear: only a parked receiver is owed anything.
LEMMA CoveredUnarmed ==
    ASSUME Covered, rpc' = rpc, rechecking' = rechecking, bound' = bound, ~armed',
           rpc = "parked" => BeforeWake'
    PROVE  Covered'
  BY DEF Covered

\* The futex call releases the receiver, if it is parked.
LEMMA CoveredByWake ==
    ASSUME Covered, FutexWake, rechecking' = rechecking, bound' = bound, armed' = armed,
           pending' = pending, queue' = queue, senders' = senders,
           npc = "notify" => npc' = "notify",
           \A t \in Senders : spc[t] \in {"notify", "lastNotify"} => spc'[t] = spc[t]
    PROVE  Covered'
<1>1. (\E t \in Senders : spc[t] = "notify") => \E t \in Senders : spc'[t] = "notify"
  OBVIOUS
<1>2. (\E t \in Senders : spc[t] = "lastNotify") => \E t \in Senders : spc'[t] = "lastNotify"
  OBVIOUS
<1>3. HeadReady' = HeadReady
  BY DEF HeadReady
<1>4. CASE rpc = "parked"
  <2>1. rpc' = "resumed"
    BY <1>4 DEF FutexWake
  <2> QED
    BY <1>4, <2>1 DEF Covered
<1>5. CASE rpc # "parked"
  <2>1. rpc' = rpc
    BY <1>5 DEF FutexWake
  <2> QED
    BY <1>1, <1>2, <1>3, <1>5, <2>1 DEF Covered
<1> QED
  BY <1>4, <1>5

LEMMA PublishCovered ==
    ASSUME Data, Steps, Covered, NEW s \in Senders, SendPublish(s) PROVE Covered'
<1>1. spc'[s] = "notify"
  BY DEF SendPublish, Steps
<1>2. \A t \in Senders : spc[t] \in {"notify", "lastNotify", "wake", "lastWake"} => spc'[t] = spc[t]
  BY DEF SendPublish, Steps
<1> QED
  BY <1>1, <1>2, CoveredBySender DEF SendPublish, wvars, nvars, rvars

LEMMA ReserveCovered ==
    ASSUME Data, Steps, Covered, NEW s \in Senders, SendReserve(s) PROVE Covered'
<1>1. HeadReady' => HeadReady
  <2>1. PICK e \in Entries : ~e.ready /\ queue' = Append(queue, e)
    BY Reserved
  <2>2. CASE queue = <<>>
    <3>1. Head(queue') = e
      BY <2>1, <2>2, SMTT(40) DEF Data
    <3> QED
      BY <2>1, <3>1 DEF HeadReady
  <2>3. CASE queue # <<>>
    <3>1. Head(queue') = Head(queue)
      BY <2>1, <2>3, SMTT(40) DEF Data
    <3> QED
      BY <2>3, <3>1 DEF HeadReady
  <2> QED
    BY <2>2, <2>3
<1>2. \A t \in Senders : spc[t] \in {"notify", "lastNotify", "wake", "lastWake"} => spc'[t] = spc[t]
  BY DEF SendReserve, Steps
<1> QED
  BY <1>1, <1>2, CoveredBySender DEF SendReserve, wvars, nvars, rvars

LEMMA HandleCovered ==
    ASSUME Steps, Counted, Covered, NEW s \in Senders,
           SendCheckAlive(s) \/ SendFull(s) \/ DropSender(s) \/ \E t \in Senders : Clone(s, t)
    PROVE  Covered'
<1>1. \A t \in Senders : spc[t] \in {"notify", "lastNotify", "wake", "lastWake"} => spc'[t] = spc[t]
  BY DEF SendCheckAlive, SendFull, DropSender, Clone, Steps
<1>2. queue' = queue
  BY DEF SendCheckAlive, SendFull, DropSender, Clone
<1>3. senders' = 0 => senders = 0 \/ \E t \in Senders : spc'[t] = "lastNotify"
  <2>1. CASE DropSender(s)
    <3>1. senders' = 0 => senders = 1
      BY <2>1, NoneLive, SMTT(40) DEF DropSender
    <3> QED
      BY <2>1, <3>1 DEF DropSender, Steps
  <2>2. CASE \E t \in Senders : Clone(s, t)
    BY <2>2, NoneLive, SMTT(40) DEF Clone
  <2>3. CASE SendCheckAlive(s) \/ SendFull(s)
    BY <2>3 DEF SendCheckAlive, SendFull
  <2> QED
    BY <2>1, <2>2, <2>3
<1>4. HeadReady' = HeadReady
  BY <1>2 DEF HeadReady
<1>5. /\ rpc' = rpc /\ rechecking' = rechecking /\ bound' = bound /\ armed' = armed
      /\ pending' = pending /\ npc' = npc
  BY DEF SendCheckAlive, SendFull, DropSender, Clone, wvars, nvars, rvars
<1> QED
  BY <1>1, <1>3, <1>4, <1>5, CoveredBySender

LEMMA SwapCovered ==
    ASSUME Flags, Steps, Covered,
           (\E s \in Senders : SendNotify(s) \/ LastNotify(s)) \/ StateNotify
    PROVE  Covered'
<1>1. rpc' = rpc /\ rechecking' = rechecking /\ bound' = bound
  BY DEF SendNotify, LastNotify, StateNotify, rvars
<1>2. CASE bound /\ armed
  <2>1. ~armed' /\ BeforeWake'
    BY <1>2 DEF SendNotify, LastNotify, StateNotify, Swap, Steps, BeforeWake
  <2> QED
    BY <1>1, <2>1, CoveredUnarmed
<1>3. CASE ~(bound /\ armed)
  <2>1. ~armed /\ ~armed'
    BY <1>3 DEF SendNotify, LastNotify, StateNotify, Swap, Covered
  <2>2. BeforeWake => BeforeWake'
    BY <1>3 DEF SendNotify, LastNotify, StateNotify, Swap, Steps, BeforeWake, svars, nvars
  <2> QED
    BY <1>1, <2>1, <2>2, CoveredUnarmed DEF Covered
<1> QED
  BY <1>2, <1>3

LEMMA WakeCovered ==
    ASSUME Steps, Covered, (\E s \in Senders : SendWake(s) \/ LastWake(s)) \/ StateWake
    PROVE  Covered'
<1>1. /\ FutexWake /\ rechecking' = rechecking /\ bound' = bound /\ armed' = armed
      /\ pending' = pending /\ queue' = queue /\ senders' = senders
  BY DEF SendWake, LastWake, StateWake, wvars, svars, nvars
<1>2. npc = "notify" => npc' = "notify"
  BY DEF SendWake, LastWake, StateWake, nvars
<1>3. \A t \in Senders : spc[t] \in {"notify", "lastNotify"} => spc'[t] = spc[t]
  BY DEF SendWake, LastWake, StateWake, svars, Steps
<1> QED
  BY <1>1, <1>2, <1>3, CoveredByWake

LEMMA StateCovered ==
    ASSUME Covered, StateChange \/ StateSetPending PROVE Covered'
<1>1. /\ rpc' = rpc /\ rechecking' = rechecking /\ bound' = bound /\ armed' = armed
      /\ queue' = queue /\ senders' = senders /\ spc' = spc
  BY DEF StateChange, StateSetPending, wvars, svars, rvars
<1>2. HeadReady' = HeadReady
  BY <1>1 DEF HeadReady
<1>3. BeforeWake => BeforeWake'
  BY <1>1 DEF StateChange, StateSetPending, BeforeWake
<1>4. pending' => npc' = "notify" \/ (pending /\ npc # "notify")
  BY DEF StateChange, StateSetPending
<1> QED
  BY <1>1, <1>2, <1>3, <1>4 DEF Covered

LEMMA ReceiverCovered ==
    ASSUME Flags, Steps, Covered, BindWake \/ ReceiverStep \/ WaitExpires \/ DropReceiver
    PROVE  Covered'
<1>1. spc' = spc /\ npc' = npc /\ senders' = senders
  BY DEF BindWake, ReceiverStep, LoopTop, TakePending, Refresh, TryRecvPop, TryRecvSenders,
     TryRecvRetry, Arm, Nap, Wait, Cancel, WaitExpires, DropReceiver, svars, nvars
<1>2. BeforeWake' = BeforeWake
  BY <1>1 DEF BeforeWake
<1>3. CASE queue' = queue
  <2>1. HeadReady' = HeadReady
    BY <1>3 DEF HeadReady
  <2>2. CASE BindWake
    BY <1>1, <1>2, <2>1, <2>2 DEF BindWake, nvars, rvars, Covered
  <2>3. CASE LoopTop
    BY <1>1, <1>2, <2>1, <2>3 DEF LoopTop, wvars, nvars, Covered
  <2>4. CASE TakePending
    BY <1>1, <1>2, <2>1, <2>4 DEF TakePending, wvars, Covered
  <2>5. CASE Refresh
    BY <1>1, <1>2, <2>1, <2>5 DEF Refresh, wvars, nvars, Covered
  <2>6. CASE TryRecvPop
    BY <1>1, <1>2, <2>1, <2>6 DEF TryRecvPop, Deliver, wvars, nvars, Covered
  <2>7. CASE TryRecvSenders
    <3>1. \/ senders = 0 /\ rpc' = "repop"
          \/ senders # 0 /\ rechecking /\ rpc' = "wait"
          \/ ~rechecking /\ bound /\ rpc' = "arm"
          \/ ~rechecking /\ rpc' = "nap"
      BY <2>7 DEF TryRecvSenders, AfterEmpty
    <3>2. /\ rpc = "senders" /\ bound' = bound /\ armed' = armed /\ rechecking' = rechecking
          /\ pending' = pending
      BY <2>7 DEF TryRecvSenders, wvars, nvars
    <3> QED
      BY <1>1, <1>2, <2>1, <3>1, <3>2 DEF Covered
  <2>8. CASE TryRecvRetry
    <3>a. armed => rechecking
      BY DEF Covered
    <3>1. /\ bound' = bound /\ rechecking' = rechecking /\ pending' = pending
          /\ \/ armed' = armed /\ rechecking /\ rpc' = "cancel"
             \/ ~armed' /\ rpc' \in {"top", "disconnected"}
      <4>1. bound' = bound /\ rechecking' = rechecking /\ pending' = pending
        BY <2>8 DEF TryRecvRetry, nvars
      <4>2. \/ rpc' = (IF rechecking THEN "cancel" ELSE "top") /\ armed' = armed
            \/ rpc' = "disconnected" /\ armed' = (armed /\ ~rechecking)
        BY <2>8 DEF TryRecvRetry, Deliver
      <4>3. CASE rechecking
        BY <4>1, <4>2, <4>3
      <4>4. CASE ~rechecking
        <5>1. ~armed
          BY <3>a, <4>4
        <5>2. ~armed'
          BY <4>2, <5>1
        <5>3. rpc' \in {"top", "disconnected"}
          BY <4>2, <4>4
        <5> QED
          BY <4>1, <5>2, <5>3
      <4> QED
        BY <4>3, <4>4
    <3>2. CASE armed' = armed /\ rechecking /\ rpc' = "cancel"
      BY <1>1, <1>2, <2>1, <3>1, <3>2 DEF Covered
    <3>3. CASE ~armed' /\ rpc' \in {"top", "disconnected"}
      BY <1>1, <1>2, <2>1, <3>1, <3>3 DEF Covered
    <3> QED
      BY <3>1, <3>2, <3>3
  <2>9. CASE Arm
    BY <1>1, <1>2, <2>1, <2>9 DEF Arm, nvars, Covered
  <2>10. CASE Nap
    BY <1>1, <1>2, <2>1, <2>10 DEF Nap, wvars, Covered
  <2>11. CASE Wait
    BY <1>1, <1>2, <2>1, <2>11 DEF Wait, wvars, nvars, Covered
  <2>12. CASE WaitExpires \/ DropReceiver
    <3>1. /\ bound' = bound /\ armed' = armed /\ rechecking' = rechecking /\ pending' = pending
          /\ \/ rpc' = "resumed" /\ rpc = "parked"
             \/ rpc' = "gone" /\ rpc \in {"top", "disconnected"}
      BY <2>12 DEF WaitExpires, DropReceiver, wvars, nvars
    <3> QED
      BY <1>1, <1>2, <2>1, <3>1 DEF Covered
  <2>13. CASE Cancel
    BY <1>1, <1>2, <2>1, <2>13 DEF Cancel, nvars, Covered
  <2> QED
    BY <2>2, <2>3, <2>4, <2>5, <2>6, <2>7, <2>8, <2>9, <2>10, <2>11, <2>12, <2>13
       DEF ReceiverStep
<1>4. CASE queue' # queue
  <2>1. /\ Deliver /\ armed' = armed /\ bound' = bound /\ rechecking' = rechecking
        /\ pending' = pending
    BY <1>4 DEF BindWake, ReceiverStep, LoopTop, TakePending, Refresh, TryRecvPop,
       TryRecvSenders, TryRecvRetry, Arm, Nap, Wait, Cancel, WaitExpires, DropReceiver, wvars, nvars
  <2>2. rpc' = IF rechecking THEN "cancel" ELSE "top"
    BY <2>1 DEF Deliver
  <2> QED
    BY <1>1, <1>2, <2>1, <2>2 DEF Covered
<1> QED
  BY <1>3, <1>4

LEMMA CoveredNext ==
    ASSUME TypeOK, Counted, Covered, [Next]_vars PROVE Covered'
<1>1. Data /\ Flags /\ Steps
  BY DEF TypeOK
<1>2. CASE UNCHANGED vars
  <2>1. HeadReady' = HeadReady /\ BeforeWake' = BeforeWake
    BY <1>2 DEF vars, svars, nvars, HeadReady, BeforeWake
  <2> QED
    BY <1>2, <2>1 DEF vars, wvars, svars, nvars, rvars, Covered
<1> QED
  BY <1>1, <1>2, PublishCovered, ReserveCovered, HandleCovered, SwapCovered, WakeCovered,
     StateCovered, ReceiverCovered DEF Next, SenderStep, NotifierStep

-----------------------------------------------------------------------------
(* The safety of the channel *)

LEMMA Invariance == Spec => []IInv
<1>1. Init => IInv
  <2> SUFFICES ASSUME Init PROVE IInv
    OBVIOUS
  <2>1. Ended
    BY DEF Init, Ended
  <2>2. Covered
    BY DEF Init, Covered
  <2> QED
    BY <2>1, <2>2, InitType, CountedInit, InOrderInit DEF IInv
<1>2. IInv /\ [Next]_vars => IInv'
  <2> SUFFICES ASSUME IInv, [Next]_vars PROVE IInv'
    OBVIOUS
  <2>1. TypeOK /\ Data /\ Flags /\ Steps /\ Counted /\ InOrder /\ Ended /\ Covered
    BY DEF IInv, TypeOK
  <2>2. TypeOK'
    BY <2>1, DataNext, FlagsNext, StepsNext DEF TypeOK
  <2> QED
    BY <2>1, <2>2, CountedNext, InOrderNext, EndedNext, CoveredNext DEF IInv
<1> QED
  BY <1>1, <1>2, PTL DEF Spec

\* try_recv() reports Disconnected only after every accepted value has been
\* returned, once and in order, however the last send and the last drop race
\* with its two looks at the queue.
THEOREM DisconnectedMeansDrained == Spec => []DisconnectedIsDrained
<1>1. IInv => DisconnectedIsDrained
  <2> SUFFICES ASSUME IInv, rpc = "disconnected" PROVE delivered = [i \in 1..accepted |-> i]
    BY DEF DisconnectedIsDrained
  <2>1. delivered \in Seq(Nat) /\ accepted \in Nat
    BY DEF IInv, TypeOK, Data
  <2>2. queue = <<>> /\ Len(delivered) + Len(queue) = accepted
    BY DEF IInv, Ended, InOrder
  <2>3. \A i \in DOMAIN delivered : delivered[i] = i
    BY DEF IInv, InOrder
  <2>4. DOMAIN delivered = 1..accepted
    BY <2>1, <2>2, SMTT(40)
  <2>5. delivered = [i \in DOMAIN delivered |-> delivered[i]]
    BY <2>1, SMTT(40)
  <2> QED
    BY <2>3, <2>4, <2>5
<1> QED
  BY Invariance, <1>1, PTL

\* A receiver parked in FUTEX_WAIT with something to see is always owed a
\* notification: arm, look again, wait loses no wake-up, whatever the timeout.
THEOREM NoWakeupIsLost == Spec => []NoLostWakeup
<1>1. IInv => NoLostWakeup
  BY DEF IInv, Covered, NoLostWakeup, Work, BeforeSwap
<1> QED
  BY Invariance, <1>1, PTL
=============================================================================
