CONSTANTS
  None = None
  Subjects = {"maya", "leo", "supervisor"}
  Resources <- MCResources
  Columns = {"region", "*"}
  AllowedColumns = {"region"}
  Owner <- MCOwner
  Resource <- MCResource
  ArcadeGrants <- MCArcadeGrants
  MaxDelegationTtl = 1
  MaxCredentialTtl = 2
  MaxTtl = 3
  Calls <- MCCalls
SPECIFICATION Spec
INVARIANT TypeOK
INVARIANT MediatedIsSafe
INVARIANT RawStopsWhatRequestsShow
INVARIANT SubstratesAgree
INVARIANT AllowsWhatIsWarranted
PROPERTY RefusedForAReason
CHECK_DEADLOCK FALSE
