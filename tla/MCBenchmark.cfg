CONSTANTS
  None = None
  Corpus <- BenchmarkCases
  Subjects <- WorldSubjects
  Resources <- WorldResources
  Columns <- MCColumns
  AllowedColumns <- ApprovedColumns
  Owner <- WorldOwner
  Resource <- WorldResource
  ArcadeGrants <- WorldArcadeGrants
  MaxDelegationTtl = 30
  MaxCredentialTtl = 60
  MaxTtl = 3600
  Calls <- MCCalls
  Sessions <- MCSessions
  Presentable <- MCPresentable
  MaxSteps = 4
SPECIFICATION Spec
INVARIANT MediatedModesHold
INVARIANT GradeAIsEarned
INVARIANT EvidenceIsOneEffect
INVARIANT CheckAgreesWithGrades
INVARIANT SilentEnginesEarnNothing
INVARIANT PublishedScores
CHECK_DEADLOCK FALSE
