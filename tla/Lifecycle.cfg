CONSTANTS
  t1 = t1
  t2 = t2
  t3 = t3
  None = None
  Threads = {t1, t2, t3}
  Initializers = {t1}
  Finalizers = {t1}
  Failures = {"init", "fini"}
  MaxCalls = 6
SPECIFICATION FairSpec
CHECK_DEADLOCK FALSE
INVARIANTS LifeInv OperationsAreProtected OperationsFindTheirDomains
PROPERTY CallsReturn
