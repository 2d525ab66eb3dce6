CONSTANTS
  Events = {e1, e2, e3, e4, e5}
  CleanupValue = 3
  CountWidth = 3
  MaxAdds = 6
SPECIFICATION PBSpec
CHECK_DEADLOCK FALSE
SYMMETRY EventSymmetry
INVARIANTS PendingIsUnfinished DestroyedMeansFinished
PROPERTY CleanupForgetsCompleted
