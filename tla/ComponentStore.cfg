\* Two stores of two ids, a change log that one entry fills.
SPECIFICATION StoreSpec
CONSTANTS
  Ids = {0, 1}
  Gens = {0, 1}
  ChangeIdCap = 1
  NumStores = 2
  Values <- MCValues
  MaxClock = 5
INVARIANTS StoresCoherent AlignmentFresh
PROPERTY MapsSpec
