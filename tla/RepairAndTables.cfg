CONSTANTS
  BlockSize = 8
  Sizes = {3, 7}
  Offsets = {6}
  MaxRecords = 2
  MaxFaults = 1
  BatchHeader = 2
  MaxKills = 1
  Radix = 4
  NumLevels = 7
  MaxNumber = 1844674
  t1 = t1
  t2 = t2
  t3 = t3
  Thread = {t1, t2, t3}
  Table = {1, 2}
  MaxHandles = 5
  Capacity = 2
  NumShards = 2
  ShardHashes = 4
  MinLength = 1
  Hash <- Hashes
  MmapLimit = 1
  FdLimit = 1
SPECIFICATION BothSpec
SYMMETRY Threads
INVARIANTS
  ReadsBack
  NothingIsDestroyed
  RepairedIsWhole
  CacheIsConsistent
  HeldAreOpen
  LimitsBalance
CHECK_DEADLOCK FALSE
