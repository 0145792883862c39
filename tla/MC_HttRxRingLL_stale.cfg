\* Two rx contexts replenishing, the retry timer, the firmware and the
\* indication handler: does the firmware ever fill a slot the host has not
\* posted?  The rx path can stop for good, so deadlock is not checked.
CONSTANTS
  c1 = c1  c2 = c2  tmr = tmr
  RxCtx <- MC_RxCtx
  Timer <- tmr
  RingSize = 4
  FillLevel = 3
  MaxAllocFail = 1
  MaxMapFail = 0
SPECIFICATION Spec
PROPERTY FwFillsOnlyPosted
CHECK_DEADLOCK FALSE
