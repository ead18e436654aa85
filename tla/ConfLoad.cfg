\* Five versions of the file, replaced at any moment, two loads.
SPECIFICATION Spec
CONSTANTS
  Files <- ConfFiles
  U32Mod = 65536
  MaxLoads = 2
INVARIANTS
  LoadAssignsPrefix
  ResultTellsCompleteness
