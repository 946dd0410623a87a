SPECIFICATION DossierSpec
CONSTANTS
  t1 = t1
  t2 = t2
  l1 = l1
  l2 = l2
  e1 = e1
  e2 = e2
  e3 = e3
  r1 = r1
  None = None
  Threads = {t1}
  Loggers = {l1}
  Events = {e1, e2, e3}
  Readers = {r1}
  Backend = "s3"
  PageSize = 2
  Faults = {}
INVARIANTS
  DefensibleIsComplete
SYMMETRY Symmetry
CHECK_DEADLOCK FALSE
