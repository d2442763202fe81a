SPECIFICATION Spec
CONSTANTS
  Load <- Loaded
  Programs <- MCDeviating
INVARIANT TraceAgrees
CHECK_DEADLOCK FALSE
