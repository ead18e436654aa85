\* No symmetry (unsound for liveness); one connection fits, and the
\* system runs out of files twice.
SPECIFICATION FairSpec
CONSTANTS
  Conns = {c1, c2}
  FirstFd = 4
  MaxFd = 6
  Backlog = 2
  MaxEvents = 2
  PollCount = 2
  MaxShortages = 2
PROPERTIES
  QueueServed
  HangupReleases
CHECK_DEADLOCK FALSE
