\* Two callers race for the registry's lock with presentations of up to three
\* events.
CONSTANTS
  t1 = t1
  t2 = t2
  a = a
  b = b
  other = other
  left = left
  right = right
  north = north
  harbor = harbor
  d1 = d1
  d2 = d2
  NoThread = NoThread
  Garbage = Garbage
  Threads = {t1, t2}
  Capabilities = {a, b, other}
  Branches = {left, right}
  Tenants = {north, harbor}
  Digests = {d1, d2}
  Issued = {a, b, other}
  Grant <- MCGrant
  Tenant = north
  Presentable <- MCRacePool
  MaxEvents = 3
SPECIFICATION Spec
SYMMETRY Symmetry
INVARIANTS
  TypeOK
  VerdictIsExact
PROPERTY ImplementsAuthorityStore
