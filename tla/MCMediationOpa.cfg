CONSTANTS
  None = None
  Subjects = {"maya", "leo", "supervisor"}
  Resources <- MCResources
  Columns = {"region", "*"}
  AllowedColumns = {"region"}
  Owner <- MCOwner
  Resource <- MCResource
  ArcadeGrants <- MCArcadeGrants
  MaxDelegationTtl = 1
  MaxCredentialTtl = 2
  MaxTtl = 3
  Calls <- MCCalls
SPECIFICATION Spec
INVARIANT OpaBindsDurableIdentity
CHECK_DEADLOCK FALSE
