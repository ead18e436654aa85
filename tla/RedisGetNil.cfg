\* GetString of a key that is not set.
SPECIFICATION Spec
CONSTANTS
  Keys = {k1}
  Values = {v1, v2}
  Nil = Nil
  NoValue = NoValue
  MaxCalls = 2
INVARIANT GetTrueHasValue
CHECK_DEADLOCK FALSE
