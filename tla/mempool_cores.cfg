SPECIFICATION FairSpec
CONSTANTS
  Lcore = {c0, c1}
  Obj = {m1, m2, m3, m4}
  NULL = NULL
  Size = 8
  IndexMod = 16
  CacheSizes = {1, 2}
  CacheMax = 2
  MaxBulk = 3
  MaxOps = 2
  Start = {10, 14}
INVARIANTS PoolTypeOK Conserved PutFits CacheBounded
PROPERTIES RingIsFifo 
CHECK_DEADLOCK FALSE
