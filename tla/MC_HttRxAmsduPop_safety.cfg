\* Either pop attach can program.  For htt_rx_amsdu_rx_in_order_pop_ll:
\* every message of up to 3 MSDUs, with any MIC errors, any failed pops and
\* the offload flag.  For htt_rx_amsdu_pop_ll: every descriptor layout of up to three posted buffers, lengths at each
\* boundary, at most one late or missing done bit, in every build.  A call
\* ends (returns or asserts), so deadlock is not checked.
CONSTANTS
  MaxCount = 3
  RingLen = 4
  Posted = 3
  BufSize <- MC_BufSize
  DescSize <- MC_DescSize
  WarLimit <- MC_WarLimit
  NumMsduBytes = 1
  Chains = {0, 1}
  LensFor <- MC_LensAll
  Invalids = {FALSE, TRUE}
  DoneStates = {"late", "never"}
  Builds <- MC_Builds
  Honest = TRUE
SPECIFICATION PopSpec
INVARIANTS PopTypeOK ChainMatchesIndication ChainWellFormed MsduLengths
CHECK_DEADLOCK FALSE
