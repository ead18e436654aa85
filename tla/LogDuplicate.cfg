\* main() as it is written: the configuration is never loaded.
SPECIFICATION Spec
CONSTANTS
  Confs <- MCNever
  DefaultConf <- MCDefault
  DefaultName = ""
  Day = 2
  MaxTime = 2
  MaxMsgs = 2
  MaxWorkers = 2
CHECK_DEADLOCK FALSE
INVARIANT DuplicateIgnored
