SPECIFICATION AISpec
CONSTANTS
  NumEngines = 2
  Available <- Cards
  PhysLimit = 2
  MaxLogDomains = 3
  MaxPlaces = 2
  MaxOver = 2
  MaxStreams = 7
INVARIANTS DomainsPartition StreamsPartition FreshStreamIDs
