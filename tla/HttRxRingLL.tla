----------------------------- MODULE HttRxRingLL -----------------------------
(***************************************************************************)
(* The rx ring in ordered (non full-reorder-offload) mode.  The host posts *)
(* empty buffers at alloc_idx, the firmware fills them in slot order, and  *)
(* htt_rx_netbuf_pop takes them back at sw_rd_idx.msdu_payld.              *)
(*                                                                         *)
(*   - htt_rx_msdu_buff_replenish: rx contexts; refill_ref_cnt (atomic,    *)
(*     initially 1) lets one of them at a time into                        *)
(*     htt_rx_fill_ring_count, which asks fill_n for                       *)
(*     fill_level - fill_cnt buffers;                                      *)
(*   - htt_rx_ring_fill_n: reads alloc_idx into a local, posts buffers one *)
(*     by one, and writes the local back to alloc_idx; an allocation       *)
(*     failure (re)starts refill_retry_timer;                              *)
(*   - htt_rx_ring_refill_retry: the timer callback takes refill_lock and  *)
(*     calls fill_n with refill_debt, which is 0 in this mode (only the    *)
(*     in-order replenish adds debt), so it only re-writes alloc_idx;      *)
(*   - the firmware and the rx indication handler as the environment.      *)
(*                                                                         *)
(* Buffers are identified by their slot: what is checked is which slots   *)
(* the host has posted, which the firmware has filled, and the counters.   *)
(***************************************************************************)
EXTENDS Integers, FiniteSets

CONSTANTS
  RingSize,       \* rx_ring.size (a power of two)
  FillLevel,      \* rx_ring.fill_level
  RxCtx,          \* rx contexts calling htt_rx_msdu_buff_replenish
  Timer,          \* the refill_retry_timer callback, an actor of fill_n
  MaxAllocFail,   \* bound on qdf_nbuf_alloc failures
  MaxMapFail      \* bound on qdf_nbuf_map failures

ASSUME FillLevel < RingSize /\ Timer \notin RxCtx

Slots == 0 .. RingSize - 1
Actors == RxCtx \cup {Timer}

(* idx++; idx &= size_mask *)
IdxNext(i) == (i + 1) % RingSize

VARIABLES
  allocIdx,   \* *rx_ring.alloc_idx.vaddr, read by the firmware
  swRd,       \* rx_ring.sw_rd_idx.msdu_payld
  fillCnt,    \* rx_ring.fill_cnt
  refCnt,     \* rx_ring.refill_ref_cnt
  fwIdx,      \* the firmware's next slot to fill
  posted,     \* slots holding a buffer the host posted and has not popped
  done,       \* slots the firmware filled and the host has not popped
  armed,      \* refill_retry_timer is pending
  pc,         \* pc[a] for every actor
  num,        \* num[a]: fill_n's num
  idx,        \* idx[a]: fill_n's local idx
  allocFails, mapFails

vars == <<allocIdx, swRd, fillCnt, refCnt, fwIdx, posted, done, armed, pc,
          num, idx, allocFails, mapFails>>

Set(f, a, v) == [f EXCEPT ![a] = v]

(* htt_rx_attach: alloc_idx = 0, refill_ref_cnt = 1, fill_cnt = 0, then    *)
(* fill_n(fill_level), which posts slots 0 .. fill_level - 1.             *)
Init ==
  /\ allocIdx = FillLevel % RingSize
  /\ swRd = 0
  /\ fillCnt = FillLevel
  /\ refCnt = 1
  /\ fwIdx = 0
  /\ posted = 0 .. FillLevel - 1
  /\ done = {}
  /\ armed = FALSE
  /\ pc = [a \in Actors |-> "idle"]
  /\ num = [a \in Actors |-> 0]
  /\ idx = [a \in Actors |-> 0]
  /\ allocFails = 0
  /\ mapFails = 0

-----------------------------------------------------------------------------
(* htt_rx_msdu_buff_replenish *)

(* Mutant: the dec_and_test guard dropped; every caller refills.         *)
ReplenishNoGuard(c) ==
  /\ pc[c] = "idle"
  /\ refCnt' = refCnt - 1
  /\ pc' = Set(pc, c, "count")
  /\ UNCHANGED <<allocIdx, swRd, fillCnt, fwIdx, posted, done, armed, num,
                 idx, allocFails, mapFails>>

(* qdf_atomic_dec_and_test(&refill_ref_cnt): the caller that brings it to *)
(* 0 refills; the others only increment it back.                           *)
ReplenishDec(c) ==
  /\ pc[c] = "idle"
  /\ refCnt' = refCnt - 1
  /\ pc' = Set(pc, c, IF refCnt' = 0 THEN "count" ELSE "inc")
  /\ UNCHANGED <<allocIdx, swRd, fillCnt, fwIdx, posted, done, armed, num,
                 idx, allocFails, mapFails>>

(* qdf_atomic_inc(&refill_ref_cnt) *)
ReplenishInc(c) ==
  /\ pc[c] = "inc"
  /\ refCnt' = refCnt + 1
  /\ pc' = Set(pc, c, "idle")
  /\ UNCHANGED <<allocIdx, swRd, fillCnt, fwIdx, posted, done, armed, num,
                 idx, allocFails, mapFails>>

-----------------------------------------------------------------------------
(* htt_rx_ring_fill_n, in ordered mode *)

(* Where fill_n returns to: the increment of refill_ref_cnt, or the end  *)
(* of the timer callback (whose debt arithmetic is on 0s, and which        *)
(* releases refill_lock).                                                  *)
Caller(a) == IF a = Timer THEN "idle" ELSE "inc"

(* Entry of fill_n(pdev, n): idx = *alloc_idx.vaddr, then the range check. *)
(* idx is always masked, but num exceeds the ring size once fill_cnt has  *)
(* gone negative; fill_n then returns 0 at once, without writing          *)
(* alloc_idx.  fill_n's caller reads fill_cnt or refill_debt just before;  *)
(* no other actor changes both, so the two reads are taken as one step.    *)
FillBegin(a, n) ==
  /\ num' = Set(num, a, n)
  /\ idx' = Set(idx, a, allocIdx)
  /\ pc' = Set(pc, a, IF n > RingSize THEN Caller(a) ELSE "loop")

(* update_alloc_idx: *alloc_idx.vaddr = idx, and fill_n returns.          *)
UpdateAllocIdx(a) ==
  /\ allocIdx' = idx[a]
  /\ pc' = Set(pc, a, Caller(a))

(* htt_rx_fill_ring_count: fill_n(pdev, fill_level - fill_cnt).           *)
FillRingCount(c) ==
  /\ pc[c] = "count"
  /\ FillBegin(c, FillLevel - fillCnt)
  /\ UNCHANGED <<allocIdx, swRd, fillCnt, refCnt, fwIdx, posted, done, armed,
                 allocFails, mapFails>>

(* One iteration with num > 0 that posts a buffer: netbufs_ring[idx] and  *)
(* paddrs_ring[idx] set, fill_cnt++, num--, idx advanced and masked.      *)
FillPost(a) ==
  /\ pc[a] = "loop"
  /\ num[a] > 0
  /\ posted' = posted \cup {idx[a]}
  /\ fillCnt' = fillCnt + 1
  /\ num' = Set(num, a, num[a] - 1)
  /\ idx' = Set(idx, a, IdxNext(idx[a]))
  /\ UNCHANGED <<allocIdx, swRd, refCnt, fwIdx, done, armed, pc, allocFails,
                 mapFails>>

(* qdf_nbuf_alloc fails: qdf_timer_stop then qdf_timer_start of the      *)
(* retry timer, goto update_alloc_idx.                                     *)
FillAllocFail(a) ==
  /\ pc[a] = "loop"
  /\ num[a] > 0
  /\ allocFails < MaxAllocFail
  /\ allocFails' = allocFails + 1
  /\ armed' = TRUE
  /\ pc' = Set(pc, a, "publish")
  /\ UNCHANGED <<allocIdx, swRd, fillCnt, refCnt, fwIdx, posted, done, num,
                 idx, mapFails>>

(* qdf_nbuf_map fails: the buffer is freed, goto update_alloc_idx (no     *)
(* timer).                                                                 *)
FillMapFail(a) ==
  /\ pc[a] = "loop"
  /\ num[a] > 0
  /\ mapFails < MaxMapFail
  /\ mapFails' = mapFails + 1
  /\ UpdateAllocIdx(a)
  /\ UNCHANGED <<swRd, fillCnt, refCnt, fwIdx, posted, done, armed, num, idx,
                 allocFails>>

(* while (num > 0) ends (num <= 0 if fill_cnt was above fill_level); the *)
(* debt test (debt_served < refill_debt) is false, as refill_debt stays 0 *)
(* in this mode.                                                           *)
FillDone(a) ==
  /\ pc[a] = "loop"
  /\ num[a] <= 0
  /\ UpdateAllocIdx(a)
  /\ UNCHANGED <<swRd, fillCnt, refCnt, fwIdx, posted, done, armed, num, idx,
                 allocFails, mapFails>>

(* The jump to update_alloc_idx after a failed allocation.               *)
FillPublish(a) ==
  /\ pc[a] = "publish"
  /\ UpdateAllocIdx(a)
  /\ UNCHANGED <<swRd, fillCnt, refCnt, fwIdx, posted, done, armed, num, idx,
                 allocFails, mapFails>>

-----------------------------------------------------------------------------
(* htt_rx_ring_refill_retry: the timer expires and its callback starts,    *)
(* takes refill_lock (which no other caller takes in this mode), reads    *)
(* num = refill_debt = 0, subtracts it, and calls fill_n(pdev, 0).        *)
RefillRetry ==
  /\ armed
  /\ pc[Timer] = "idle"
  /\ armed' = FALSE
  /\ FillBegin(Timer, 0)
  /\ UNCHANGED <<allocIdx, swRd, fillCnt, refCnt, fwIdx, posted, done,
                 allocFails, mapFails>>

-----------------------------------------------------------------------------
(* The environment *)

(* The firmware fills the next slot while it is behind alloc_idx.         *)
FwFill ==
  /\ fwIdx # allocIdx
  /\ done' = done \cup {fwIdx}
  /\ fwIdx' = IdxNext(fwIdx)
  /\ UNCHANGED <<allocIdx, swRd, fillCnt, refCnt, posted, armed, pc, num, idx,
                 allocFails, mapFails>>

(* htt_rx_netbuf_pop, called by the indication handler for a slot the     *)
(* firmware has filled: msdu = netbufs_ring[idx], idx advanced and        *)
(* masked, fill_cnt--.                                                     *)
NetbufPop ==
  /\ swRd \in done
  /\ swRd' = IdxNext(swRd)
  /\ fillCnt' = fillCnt - 1
  /\ done' = done \ {swRd}
  /\ posted' = posted \ {swRd}
  /\ UNCHANGED <<allocIdx, refCnt, fwIdx, armed, pc, num, idx, allocFails,
                 mapFails>>

FillStep(a) ==
  FillPost(a) \/ FillAllocFail(a) \/ FillMapFail(a)
    \/ FillDone(a) \/ FillPublish(a)

Next ==
  \/ \E c \in RxCtx : ReplenishDec(c) \/ FillRingCount(c) \/ ReplenishInc(c)
  \/ \E a \in Actors : FillStep(a)
  \/ RefillRetry
  \/ FwFill
  \/ NetbufPop


-----------------------------------------------------------------------------
(* Ring sizing at attach, from ol_cfg_max_thruput_mbps (mbps) and the      *)
(* build's HTT_RX_HOST_LATENCY_WORST_LIKELY_MS (worstMs).  C evaluates    *)
(* mbps * 1000 / (8 * AVG) * LAT left to right, in integers.              *)
HTT_RX_RING_SIZE_MIN == 128
HTT_RX_RING_SIZE_MAX == 2048
HTT_RX_AVG_FRM_BYTES == 1000
HTT_RX_HOST_LATENCY_MAX_MS == 20

(* qdf_get_pwr2: the value rounded up to a power of two.                  *)
QdfGetPwr2(v) ==
  LET RECURSIVE Up(_)
      Up(p) == IF p >= v THEN p ELSE Up(2 * p)
  IN  Up(1)

FramesPerMs(mbps) == (mbps * 1000) \div (8 * HTT_RX_AVG_FRM_BYTES)

(* htt_rx_ring_size *)
RingSizeFor(mbps) ==
  LET size == FramesPerMs(mbps) * HTT_RX_HOST_LATENCY_MAX_MS
      clamped == IF size < HTT_RX_RING_SIZE_MIN THEN HTT_RX_RING_SIZE_MIN
                 ELSE IF size > HTT_RX_RING_SIZE_MAX THEN HTT_RX_RING_SIZE_MAX
                 ELSE size
  IN  QdfGetPwr2(clamped)

(* htt_rx_ring_fill_level *)
FillLevelFor(mbps, worstMs, ringSize) ==
  LET size == QdfGetPwr2(FramesPerMs(mbps) * worstMs)
  IN  IF size >= ringSize THEN ringSize - 1 ELSE size

(* The ring the model runs has the constants RingSize and FillLevel, a   *)
(* small stand-in for what htt_rx_attach computes with the two operators *)
(* above.                                                                  *)
Spec ==
  Init /\ [][Next]_vars

-----------------------------------------------------------------------------
TypeOK ==
  /\ allocIdx \in Slots /\ swRd \in Slots /\ fwIdx \in Slots
  /\ fillCnt \in -RingSize .. RingSize
  /\ refCnt \in 1 - Cardinality(RxCtx) .. 1
  /\ posted \subseteq Slots /\ done \subseteq Slots
  /\ armed \in BOOLEAN
  /\ pc \in [Actors -> {"idle", "count", "loop", "publish", "inc"}]
  /\ num \in [Actors -> -RingSize .. FillLevel + RingSize] /\ idx \in [Actors -> Slots]

(* fill_cnt never exceeds fill_level (and so stays below the ring size,   *)
(* keeping a full ring distinguishable from an empty one).  This rests on *)
(* refill_ref_cnt letting one replenish at a time compute                 *)
(* fill_level - fill_cnt and post that many, while indications pop        *)
(* buffers concurrently.                                                   *)
FillCntBounded == fillCnt <= FillLevel

(* The firmware only ever fills a slot that holds a buffer the host has   *)
(* posted and not popped: alloc_idx, as the firmware reads it, never runs *)
(* ahead of what fill_n posted nor behind what the firmware already       *)
(* consumed.  The retry timer's fill_n(0) writes back an alloc_idx it     *)
(* read before a concurrent replenish advanced it.                         *)
FwFillsOnlyPosted == [][fwIdx' # fwIdx => fwIdx \in posted]_vars

====
