CONSTANTS
  s1 = s1
  s2 = s2
  Senders = {s1, s2}
  First = s1
  Capacity = 2
  MaxSend = 3
  MaxState = 2
SPECIFICATION FairSpec
INVARIANTS DisconnectedIsDrained NoLostWakeup
PROPERTIES Delivered StateSeen
CHECK_DEADLOCK FALSE
