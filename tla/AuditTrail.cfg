SPECIFICATION AuditSpec
CONSTANTS
  t1 = t1
  t2 = t2
  t3 = t3
  l1 = l1
  l2 = l2
  e1 = e1
  e2 = e2
  e3 = e3
  e4 = e4
  r1 = r1
  None = None
  Threads = {t1, t2, t3}
  Loggers = {l1, l2}
  Events = {e1, e2, e3, e4}
  Readers = {r1}
  Backend = "local"
  PageSize = 1000
  Faults = {"crash", "write"}
  MaxRecords = 4
  MaxChanges = 2
INVARIANTS
  WrittenChainVerifies
  AckedDurable
  DefensibleIsComplete
  HonestDossierVerifies
  CascadeFromFirstChange
PROPERTIES
  StaleUntilReopened
  ImplementsLog
SYMMETRY Symmetry
CHECK_DEADLOCK FALSE
