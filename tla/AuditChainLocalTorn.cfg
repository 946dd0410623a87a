SPECIFICATION Spec
CONSTANTS
  t1 = t1
  t2 = t2
  t3 = t3
  l1 = l1
  l2 = l2
  e1 = e1
  e2 = e2
  e3 = e3
  e4 = e4
  None = None
  Threads = {t1}
  Loggers = {l1}
  Events = {e1, e2}
  Backend = "local"
  PageSize = 1000
  Faults = {"crash"}
PROPERTIES
  ResumePicksUpChain
CHECK_DEADLOCK FALSE
