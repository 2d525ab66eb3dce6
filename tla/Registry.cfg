SPECIFICATION Spec
CONSTANTS
  host = host
  card = card
  PhysDomains = {host, card}
  HSTR_SRC_PHYS_DOMAIN = host
  NumThreads <- Threads
  LogStreamIDs = {1, 2, 3}
  PhysStreams = {a1, a2, a3}
  MaxLogDomID = 3
SYMMETRY Symmetry
INVARIANTS CollectionsAgree MasksEqualOrDisjoint SharingIsExact RefCountsMatch OversubscriptionMatches
