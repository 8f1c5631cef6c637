CONSTANTS
  Ids = {i1, i2, i3, i4}
  WORKERS = 3
  MaxDeaths = 5
SPECIFICATION FairSpec
INVARIANT CapacityKept
PROPERTIES NoBirthInShutdown Recovers StopsWhenAsked
CHECK_DEADLOCK FALSE
