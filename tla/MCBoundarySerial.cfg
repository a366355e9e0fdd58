\* One thread, every mode, a lease that starts later than the clock.
CONSTANTS
  t1 = t1
  t2 = t2
  dash = dash
  mail = mail
  join1 = join1
  join2 = join2
  a = a
  b = b
  NoCall = NoCall
  Authorities = {a, b}
  Kind <- MCKind
  Needs <- MCNeeds
  Allowed <- MCAllowed
  Threads = {t1}
  Calls = {dash, mail, join1}
  Modes = {"native", "workos", "arcade", "opa", "cerbos", "opa-mediated", "cerbos-mediated", "typesec"}
  IssuedAt = 1
  TTL = 1
  MaxTime = 3
  MaxDecisions = 3
SPECIFICATION Spec
\* The host may stop asking: a boundary with no work left is not stuck.
CHECK_DEADLOCK FALSE
INVARIANTS
  EffectsAreOnRecord
  NoPermitStranded
