\* The components without shared state: one account, two passwords, two connections;
\* two handles and an eventfd that fills up; fewer workers than requests, one of
\* them cancelled twice.
\* Callers stop after a bounded number of calls, so deadlock is not checked.
SPECIFICATION MCSpec
CONSTANTS
  Threads = {loop, t1, t2}
  MaxCalls = 2
  CtorThrows = TRUE
  Ids = {a}
  Passwords = {p, q}
  NoAccount = NoAccount
  MaxConns = 2
  Handles = {h1, h2}
  LoopThread = loop
  EfdMax = 2
  MaxSends = 3
  Workers = {w1, w2}
  Reqs = {r1, r2, r3}
  MaxCancels = 2
  Exit = Exit
  NoReq = NoReq
INVARIANTS
  OneInstance
  HeapSound
  
  PacketsFaithful
  ReaderFaithful
  WakeupsKept
  PoolSound
PROPERTIES
  CallsEnd
  WorkServed
CHECK_DEADLOCK FALSE
