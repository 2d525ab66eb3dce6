CONSTANTS
  Width = 3
  Sizes = {1, 2, 3, 4, 5, 6, 7}
SPECIFICATION Spec
INVARIANTS LookupIsExact TransfersInBounds
PROPERTIES OnlySwallowersOverlap
