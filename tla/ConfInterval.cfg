\* The files of ConfLoad.cfg; one of them says 300 seconds.
SPECIFICATION Spec
CONSTANTS
  Files <- ConfFiles
  U32Mod = 65536
  MaxLoads = 2
INVARIANT FlushIntervalAsWritten
