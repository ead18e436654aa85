\* One call that fails, one that reconnects, one that is acknowledged and one
\* that sees the late effect of the first.  The caller may stop at any time.
SPECIFICATION FairSpec
CONSTANTS
  Keys = {k1}
  Values = {v1, v2}
  Nil = Nil
  NoValue = NoValue
  MaxCalls = 4
INVARIANTS
  OneContext
  
  
  

  
CHECK_DEADLOCK FALSE
