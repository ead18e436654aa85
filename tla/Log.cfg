\* Days of two units of time, three of them begun; reinitialised once.
\* The process may exit, so deadlock is not checked.
SPECIFICATION FairSpec
CONSTANTS
  Confs <- MCConfs
  DefaultConf <- MCDefault
  DefaultName = ""
  Day = 2
  MaxTime = 5
  MaxMsgs = 2
  MaxWorkers = 2
INVARIANTS
  OneFlusher
  
  
PROPERTIES
  CallsReturn
  MessagesFlushed
CHECK_DEADLOCK FALSE
