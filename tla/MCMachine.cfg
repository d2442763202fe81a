SPECIFICATION Spec
CONSTANTS
  Load <- Loaded
  Programs <- MCPrograms
INVARIANTS TypeOK DepthAsVerified DefersOnce TraceAgrees
PROPERTIES FollowsCfg Terminates
CHECK_DEADLOCK FALSE
