\* 7 stands for UINT64_MAX, so the deadline of the timeout 6 may be clamped.
\* The clock stops at MaxClock, and the loop may then sleep for ever.
SPECIFICATION FairSpec
CONSTANTS
  Nodes = {t1, t2, t3}
  Nil = Nil
  Timeouts = {0, 1, 6}
  Repeats = {0, 1}
  MaxClock = 2
  MaxCalls = 3
  MaxU64 = 7
  IntMax = 2
INVARIANTS
  PollWakesInTime

  
  
CHECK_DEADLOCK FALSE
