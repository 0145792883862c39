\* Refill accounting, hash coverage and progress under every interleaving of
\* two rx contexts, the retry timer and the firmware, with an allocation and
\* a map failure.  Indications carry one MSDU (MaxMsdu = 1), so that the
\* liveness check stays small; refill_debt still reaches DebtMax = 2 from two
\* deferred requests, so both sides of the trylock fallback are taken.  No
\* symmetry, because RequestsComplete is a liveness property.  The rx path
\* can stop for good (see the starvation run), so deadlock is not checked.
CONSTANTS
  c1 = c1  c2 = c2  tmr = tmr  none = none
  b1 = b1  b2 = b2  b3 = b3  b4 = b4  b5 = b5
  RxCtx <- MC_RxCtx
  Bufs <- MC_Bufs4
  Timer <- tmr
  NoActor <- none
  RingSize = 4
  FillLevel = 3
  DebtMax = 2
  MaxMsdu = 1
  MaxAllocFail = 1
  MaxMapFail = 1
  AttachFills = {3}
SPECIFICATION Spec
INVARIANTS TypeOK RefillAccounting LookupNeverMisses
PROPERTY RequestsComplete
CHECK_DEADLOCK FALSE
