\* Inserts, lookups (hits and misses) and deinit of the hash table, with one
\* malloc failure of an overflow entry.  The table stops after deinit frees
\* it, hence no deadlock check.
CONSTANTS
  b1 = b1
  b2 = b2
  b3 = b3
  null = null
  Addrs <- MC_Addrs
  Bufs <- MC_Bufs
  NoBuf = null
  NumBuckets = 1024
  EntriesSize = 1
  MaxMallocFail = 1
  IpaUcSmmu = TRUE
  MaxSmmuFail = 1
SPECIFICATION Spec
INVARIANT NeverDerefsNull
CHECK_DEADLOCK FALSE
