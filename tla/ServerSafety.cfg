\* Two connections fit beside the listener and the spare descriptor.
SPECIFICATION Spec
CONSTANTS
  Conns = {c1, c2, c3}
  FirstFd = 4
  MaxFd = 7
  Backlog = 2
  MaxEvents = 2
  PollCount = 2
  MaxShortages = 0
SYMMETRY ConnSymmetry
INVARIANTS
  DescriptorsOwned
  KernelWatches
  EventsReachOwner
  AssertsHold
PROPERTIES
  RefusedOnlyWhenFull
CHECK_DEADLOCK FALSE
