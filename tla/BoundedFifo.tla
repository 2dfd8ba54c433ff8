----------------------------- MODULE BoundedFifo -----------------------------
(***************************************************************************)
(* What a TryQueue promises: a FIFO of at most Capacity values.  A push    *)
(* and a pop take effect at one instant each; the value a consumer has     *)
(* taken is fixed at that instant.                                         *)
(***************************************************************************)
EXTENDS Naturals, Sequences

CONSTANTS Producers, Consumers, Capacity

VARIABLES
    queue,        \* the values between the two cursors
    pushes,       \* per producer, the number of its values accepted so far
    taken         \* per consumer, the value it holds

fifoVars == <<queue, pushes, taken>>

Nothing == <<>>

Init ==
    /\ queue = <<>>
    /\ pushes = [p \in Producers |-> 0]
    /\ taken = [c \in Consumers |-> Nothing]

\* A producer's values are accepted in the order it offers them.
Push(p) ==
    /\ Len(queue) < Capacity
    /\ queue' = Append(queue, <<p, pushes[p] + 1>>)
    /\ pushes' = [pushes EXCEPT ![p] = @ + 1]
    /\ UNCHANGED taken

Pop(c) ==
    /\ queue # <<>> /\ taken[c] = Nothing
    /\ taken' = [taken EXCEPT ![c] = Head(queue)]
    /\ queue' = Tail(queue)
    /\ UNCHANGED pushes

\* The call returns the value.
Return(c) ==
    /\ taken[c] # Nothing
    /\ taken' = [taken EXCEPT ![c] = Nothing]
    /\ UNCHANGED <<queue, pushes>>

Next ==
    \/ \E p \in Producers : Push(p)
    \/ \E c \in Consumers : Pop(c) \/ Return(c)

Spec == Init /\ [][Next]_fifoVars
=============================================================================
