----------------------------- MODULE MCTryQueue -----------------------------
(* Instances of TryQueue for TLC. *)
EXTENDS TryQueue, TLC

\* new(): the lap is capacity + 1 rounded up to a power of two.
next_power_of_two(n) ==
    LET powers == {2^k : k \in 0..n} IN
    CHOOSE m \in powers : m >= n /\ \A l \in powers : l >= n => m <= l

MCLap == next_power_of_two(Capacity + 1)

=============================================================================
