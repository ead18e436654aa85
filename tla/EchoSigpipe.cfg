\* The process starts with the default disposition of SIGPIPE; once it has
\* been killed nothing moves.
SPECIFICATION FairSpec
CONSTANTS
  Buffers = {b1, b2, b3, b4}
  MaxBytes = 3
  BufLen = 2
  SndBuf = 1
  ReadCount = 2
  SigpipeIgnored = FALSE
PROPERTY EveryWriteAnswered
CHECK_DEADLOCK FALSE
