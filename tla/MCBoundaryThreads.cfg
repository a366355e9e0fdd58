\* Two threads share one boundary; every interleaving of their steps.
CONSTANTS
  t1 = t1
  t2 = t2
  dash = dash
  mail = mail
  join1 = join1
  join2 = join2
  a = a
  b = b
  NoCall = NoCall
  Authorities = {a, b}
  Kind <- MCKind
  Needs <- MCNeeds
  Allowed <- MCAllowed
  Threads = {t1, t2}
  Calls = {mail, join1, join2}
  Modes = {"opa-mediated", "arcade"}
  IssuedAt = 0
  TTL = 1
  MaxTime = 1
  MaxDecisions = 3
SPECIFICATION Spec
SYMMETRY Symmetry
\* The host may stop asking: a boundary with no work left is not stuck.
CHECK_DEADLOCK FALSE
INVARIANTS
  TypeOK
  ExactCall
  PermitInOnePlace
  SingleUse
  NothingAfterLapse
  SpentForAnEffect
  ProviderAndRecorderAgree
  EffectsAreOnRecord
