\* Two runs of any two trials, overlapping at shared servers.
CONSTANTS
  r1 = r1
  r2 = r2
  Runs = {r1, r2}
  Nothing = Nothing
  Assigned = {"study"}
  Connected = {"maya"}
SPECIFICATION FairSpec
\* A run that is over does nothing more, and the runs are bounded.
CHECK_DEADLOCK FALSE
INVARIANTS
  TypeOK
  HealthyAnswersAreTrue
  DisturbedAnswersDeny
  FaultTrialsFailClosed
  EffectsAreTraceable
PROPERTY
  EveryRunEnds
