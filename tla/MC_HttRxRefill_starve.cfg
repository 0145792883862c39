\* Can an empty, idle ring stay empty for good?  Three paths lead there: a
\* request added to refill_debt after the lock holder passed its last debt
\* check; the map-failure exit of fill_n, which arms no retry timer; and a
\* short fill at htt_rx_attach, whose shortfall is never recorded (any
\* initial fill 0 .. 3).  Two contexts, one map failure allowed.
CONSTANTS
  c1 = c1  c2 = c2  tmr = tmr  none = none
  b1 = b1  b2 = b2  b3 = b3  b4 = b4  b5 = b5
  RxCtx <- MC_RxCtx
  Bufs <- MC_Bufs
  Timer <- tmr
  NoActor <- none
  RingSize = 4
  FillLevel = 3
  DebtMax = 2
  MaxMsdu = 3
  MaxAllocFail = 0
  MaxMapFail = 1
  AttachFills = {0, 1, 2, 3}
SPECIFICATION Spec
PROPERTY NoPermanentStarvation
CHECK_DEADLOCK FALSE
