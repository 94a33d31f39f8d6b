CONSTANTS
  p1 = p1
  p2 = p2
  c1 = c1
  c2 = c2
  Proc <- Procs
  NoProc = NoProc
  Client <- TwoCalls
  Ops <- Operations
  SELF_RESTART_MAX = 1
  ADOPTED_DEAD_AFTER = 2
  Faults <- NoFaults
SPECIFICATION Spec
PROPERTIES
  PlannedStopNotCrash
