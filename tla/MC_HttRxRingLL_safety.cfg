\* Two rx contexts replenishing, the retry timer, the firmware and the
\* indication handler, with one allocation and one map failure.  The rx
\* path can stop for good, so deadlock is not checked.
CONSTANTS
  c1 = c1  c2 = c2  tmr = tmr
  RxCtx <- MC_RxCtx
  Timer <- tmr
  RingSize = 4
  FillLevel = 2
  MaxAllocFail = 1
  MaxMapFail = 1
SPECIFICATION Spec
SYMMETRY Symmetry
INVARIANTS TypeOK FillCntBounded
CHECK_DEADLOCK FALSE
