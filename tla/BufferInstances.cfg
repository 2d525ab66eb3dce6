SPECIFICATION Spec
CONSTANTS
  Buffers = {b1, b2}
  PhysDomains = {host, card}
  HSTR_SRC_PHYS_DOMAIN = host
  MaxLogDomID = 2
SYMMETRY Symmetry
INVARIANTS RefCountsMatch NothingDangles SharingIsExact
PROPERTIES AllOrNothing
