\* Two threads and the same call: who takes the entry, and do both return.
CONSTANTS
  t1 = t1
  t2 = t2
  dash = dash
  mail = mail
  join1 = join1
  join2 = join2
  a = a
  b = b
  NoCall = NoCall
  Authorities = {a, b}
  Kind <- MCKind
  Needs <- MCNeeds
  Allowed <- MCAllowed
  Threads = {t1, t2}
  Calls = {mail, join1}
  Modes = {"typesec", "opa-mediated", "arcade"}
  IssuedAt = 0
  TTL = 1
  MaxTime = 1
  MaxDecisions = 2
SPECIFICATION FairSpec
\* The host may stop asking: a boundary with no work left is not stuck.
CHECK_DEADLOCK FALSE
PROPERTIES
  EveryOperationEnds
  ImplementsSingleUseGrant
