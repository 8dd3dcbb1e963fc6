SPECIFICATION CacheFairSpec
CONSTANTS
  CACHE_SIZE = 2
  Sector = {0, 1, 2}
  Part = {p1, p2}
  Byte = {0, 1}
  Zero = 0
  Sector0 = 0
INVARIANTS CacheExact
PROPERTIES RefinesStore WritebackComplete EventuallyDurable
