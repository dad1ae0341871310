SPECIFICATION FairSpec
CONSTANTS
  t1 = t1
  t3 = t3
  p = p
  q = q
  Thread = {t1, t3}
  Instance = {p, q}
  Home <- MCHome
  Requirement <- MCOther
  Prober = {q}
  None = None
INVARIANTS
  TypeOK
  DeviceExclusive
PROPERTIES
  KeepsLease
  SessionEnds
