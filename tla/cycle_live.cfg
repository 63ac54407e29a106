CONSTANTS
  N = 2
  Io = 2
  IoOutputs = TRUE
  Unreliable = FALSE
  Volatile = {1, 2}
  MaxUpsets = 1
SPECIFICATION FairSpec
PROPERTY DrivesReturn
PROPERTY DestructorReturns
\* The manager may have been destroyed, or its constructor have thrown.
CHECK_DEADLOCK FALSE
