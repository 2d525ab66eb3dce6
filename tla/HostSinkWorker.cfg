CONSTANTS
  MaxActions = 4
  Failures = {"affinity", "exception", "wait", "signal"}
SPECIFICATION FairSpec
CHECK_DEADLOCK FALSE
INVARIANTS ExecutedOnceInOrder JoinedMeansDrained
PROPERTIES ImplementsEventPromise DestructionEnds
