CONSTANTS
  Threads = {t1, t2}
  NoThread = NoThread
  t1 = t1
  t2 = t2
  a = a
  b = b
  e1 = e1
  e2 = e2
  NoId = NoId
  Junk = Junk
  Garbage = Garbage
  Contents = {a, b}
  EventId <- MCEventId
  Presentable <- MCPool
  MaxReceipts = 3
SPECIFICATION Spec
SYMMETRY Symmetry
INVARIANTS TypeOK SoundIsUnfolded
PROPERTY ImplementsAuthorityStore
\* The constructor may raise, and then there is no ledger.
CHECK_DEADLOCK FALSE
