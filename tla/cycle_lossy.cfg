CONSTANTS
  N = 2
  Io = 2
  IoOutputs = FALSE
  Unreliable = TRUE
  Volatile = {1, 2}
  MaxUpsets = 2
SPECIFICATION Spec
INVARIANT TypeOK
INVARIANT IoNotOperational
INVARIANT OperationalMapped
PROPERTY Undisturbed
\* The manager may have been destroyed, or its constructor have thrown.
CHECK_DEADLOCK FALSE
