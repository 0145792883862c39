\* fill_n's debt loop sets num to the whole refill_debt, not what is left
\* of it, so debt served once is served again and the write index laps
\* the firmware's read index.
CONSTANTS
  c1 = c1  c2 = c2  tmr = tmr  none = none
  b1 = b1  b2 = b2  b3 = b3  b4 = b4  b5 = b5
  RxCtx <- MC_RxCtx
  Bufs <- MC_Bufs
  Timer <- tmr
  NoActor <- none
  RingSize = 4
  FillLevel = 3
  DebtMax = 2
  MaxMsdu = 3
  MaxAllocFail = 0
  MaxMapFail = 0
  AttachFills = {3}
SPECIFICATION Spec
SYMMETRY Symmetry
INVARIANT NoRingOverrun
CHECK_DEADLOCK FALSE
