\* The IPA SMMU mappings against the table, with no injected
\* cds_smmu_map_unmap failure: only the interleaving of
\* htt_rx_update_smmu_map with the pop's and deinit's unlocked ipa_smmu
\* reads can break them.
CONSTANTS
  b1 = b1
  b2 = b2
  b3 = b3
  null = null
  Addrs <- MC_Addrs
  Bufs <- MC_Bufs
  NoBuf = null
  NumBuckets = 1024
  EntriesSize = 1
  MaxMallocFail = 1
  IpaUcSmmu = TRUE
  MaxSmmuFail = 0
SPECIFICATION Spec
INVARIANT SmmuMatchesTable
SYMMETRY Symmetry
CHECK_DEADLOCK FALSE
