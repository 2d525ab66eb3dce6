SPECIFICATION ApiSpec
CONSTANTS
  c1 = c1
  c2 = c2
  Callers = {c1, c2}
  Controller = controller
  None = None
  Functions <- MCAppFunctions
  Calls <- MCAppCalls
  MaxCalls = 1
  MaxCounted = 4
  Failures = {}
CHECK_DEADLOCK FALSE
INVARIANT TeardownMeetsNobody
