\* Reads and the send buffer are of two bytes, ReadCount is 32 in the code.
\* A connection may end and stay so, and SIGPIPE may end the process.
SPECIFICATION FairSpec
CONSTANTS
  Buffers = {b1, b2, b3, b4, b5}
  MaxBytes = 5
  BufLen = 2
  SndBuf = 2
  ReadCount = 2
  SigpipeIgnored = FALSE
INVARIANTS
  TypeOK
  NoByteDropped
  BufferOwnership
  AssertsHold
  NoLostWakeup
PROPERTIES
  EveryByteEchoed
  HandleDestroyed
  WritesAnswered
  ImplementsEcho
CHECK_DEADLOCK FALSE
