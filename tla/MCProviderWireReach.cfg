\* One run of any trial.
CONSTANTS
  r1 = r1
  r2 = r2
  Runs = {r1}
  Nothing = Nothing
  Assigned = {"study"}
  Connected = {"maya"}
SPECIFICATION Spec
\* A run that is over does nothing more, and the runs are bounded.
CHECK_DEADLOCK FALSE
INVARIANT
  FaultCasesReachTheirEmulator
