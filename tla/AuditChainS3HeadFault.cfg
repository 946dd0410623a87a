SPECIFICATION Spec
CONSTANTS
  t1 = t1
  t2 = t2
  t3 = t3
  l1 = l1
  l2 = l2
  e1 = e1
  e2 = e2
  e3 = e3
  e4 = e4
  None = None
  Threads = {t1}
  Loggers = {l1, l2}
  Events = {e1, e2}
  Backend = "s3"
  PageSize = 1000
  Faults = {"head"}
INVARIANTS
  AckedDurable
CHECK_DEADLOCK FALSE
