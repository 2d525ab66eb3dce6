SPECIFICATION FairApiSpec
CONSTANTS
  c1 = c1
  c2 = c2
  Callers = {c1, c2}
  Controller = controller
  None = None
  Functions <- MCFunctions
  Calls <- MCCalls
  MaxCalls = 1
  MaxCounted = 4
  Failures = {}
CHECK_DEADLOCK FALSE
INVARIANTS NoConflictingAccess NobodyStuck TeardownMeetsNobody
PROPERTIES EverybodyReturns
