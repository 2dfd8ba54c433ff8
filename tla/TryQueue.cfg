CONSTANTS
  Producers = {p1, p2}
  Consumers = {c1, c2}
  Observers = {o1}
  Capacity = 2
  Lap <- MCLap
  MaxPush = 3
SPECIFICATION FairSpec
INVARIANTS ExclusiveSlot LenBounded
PROPERTIES FullMeansFull ImplementsFifo AllPopped
