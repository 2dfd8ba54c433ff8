CONSTANTS
  l1 = l1
  l2 = l2
  Lanes = {l1, l2}
  Capacity = 2
  Mailbox = 1
  PoolSize = 2
  MaxRequests = 2
  MaxEvents = 1
SPECIFICATION FairSpec
INVARIANTS OwnReply Answerable TimingStable CapacityExact NoneStranded
PROPERTIES  OnePerPoll AllAnswered
CHECK_DEADLOCK FALSE
