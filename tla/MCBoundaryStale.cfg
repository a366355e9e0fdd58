\* One thread in the opa-mediated mode.
CONSTANTS
  t1 = t1
  t2 = t2
  dash = dash
  mail = mail
  join1 = join1
  join2 = join2
  a = a
  b = b
  NoCall = NoCall
  Authorities = {a, b}
  Kind <- MCKind
  Needs <- MCNeeds
  Allowed <- MCAllowed
  Threads = {t1}
  Calls = {mail}
  Modes = {"opa-mediated"}
  IssuedAt = 0
  TTL = 1
  MaxTime = 1
  MaxDecisions = 2
SPECIFICATION Spec
CHECK_DEADLOCK FALSE
INVARIANT
  EveryRequestIsDecided
