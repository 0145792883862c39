---------------------------- MODULE HttRxRefill ----------------------------
(***************************************************************************)
(* The rx ring refill engine of htt_rx.c in full-reorder-offload mode      *)
(* (pdev->cfg.is_full_reorder_offload): the ring of buffer addresses the   *)
(* firmware takes buffers from, the address hash table that maps a         *)
(* completed address back to its buffer, and the refill protocol between  *)
(* several rx contexts and the refill retry timer:                         *)
(*                                                                         *)
(*   htt_rx_msdu_buff_in_order_replenish  trylock refill_lock, else add    *)
(*                                        the request to refill_debt       *)
(*   htt_rx_ring_fill_n                   post buffers, serve the debt,    *)
(*                                        publish the write index          *)
(*   htt_rx_ring_refill_retry             timer: take the whole debt       *)
(*                                                                         *)
(* Data is abstracted to buffer identities: a buffer is its physical       *)
(* address.  The hash table is the set of buffers inserted and not yet     *)
(* looked up (its buckets are the subject of HttRxHash).  The firmware is  *)
(* the environment: it consumes published slots in ring order and          *)
(* indicates any subset of the buffers it holds, in any order, to an rx    *)
(* context, which pops them and asks for as many new buffers.              *)
(***************************************************************************)
EXTENDS Integers, Sequences, FiniteSets, FiniteSetsExt, Functions

CONSTANTS
  RxCtx,        \* rx contexts that handle in-order indications
  Timer,        \* the refill_retry_timer callback context
  NoActor,      \* nobody holds refill_lock
  Bufs,         \* network buffers (each with its own physical address)
  RingSize,     \* rx_ring.size
  FillLevel,    \* rx_ring.fill_level
  DebtMax,      \* RX_RING_REFILL_DEBT_MAX
  MaxMsdu,      \* most MSDUs in one in-order indication
  MaxAllocFail, \* qdf_nbuf_alloc failures the run may inject
  MaxMapFail,   \* qdf_nbuf_map / hash insert failures the run may inject
  AttachFills   \* buffers htt_rx_attach's fill_n can have posted

Actors == RxCtx \cup {Timer}

ASSUME /\ Timer \notin RxCtx /\ NoActor \notin Actors
       /\ RingSize \in Nat \ {0}
       /\ FillLevel \in 1 .. RingSize - 1
       /\ AttachFills \subseteq 0 .. FillLevel
       /\ {DebtMax, MaxMsdu, MaxAllocFail, MaxMapFail} \subseteq Nat

VARIABLES
  ring,        \* published slots not yet consumed by the firmware, in order
  fwHeld,      \* buffers the firmware consumed and has not indicated
  ind,         \* ind[c]: buffers of the indication rx context c handles
  hash,        \* buffers in the rx hash table
  staged,      \* staged[a]: slots written by a's fill_n, index not published
  pc,          \* program counter of every actor
  req,         \* req[a]: the num the caller of fill_n asked for
  num,         \* num[a]: fill_n's remaining count (its parameter)
  filled,      \* filled[a]: fill_n's count of posted buffers
  served,      \* served[a]: fill_n's debt_served
  lock,        \* owner of refill_lock
  debt,        \* refill_debt (atomic)
  timerArmed,  \* refill_retry_timer is pending
  allocFails,  \* injected allocation failures so far
  mapFails     \* injected map / insert failures so far

vars == <<ring, fwHeld, ind, hash, staged, pc, req, num, filled, served,
          lock, debt, timerArmed, allocFails, mapFails>>

FreeBufs == Bufs \ hash

Set(f, a, v) == [f EXCEPT ![a] = v]

-----------------------------------------------------------------------------
(* htt_rx_attach: the ring is created empty, the timer initialised, then   *)
(* fill_n(fill_level) posts what it can.  A shortfall arms the timer when  *)
(* it was an allocation failure and nothing when it was a map failure; it  *)
(* is not added to refill_debt.                                            *)
Init ==
  /\ \E k \in AttachFills :
       /\ ring \in {s \in [1 .. k -> Bufs] : IsInjective(s)}
       /\ timerArmed \in IF k = FillLevel THEN {FALSE} ELSE BOOLEAN
  /\ hash = Range(ring)
  /\ fwHeld = {}
  /\ ind = [c \in RxCtx |-> {}]
  /\ staged = [a \in Actors |-> <<>>]
  /\ pc = [a \in Actors |-> "idle"]
  /\ req = [a \in Actors |-> 0]
  /\ num = [a \in Actors |-> 0]
  /\ filled = [a \in Actors |-> 0]
  /\ served = [a \in Actors |-> 0]
  /\ lock = NoActor
  /\ debt = 0
  /\ allocFails = 0
  /\ mapFails = 0

-----------------------------------------------------------------------------
(* Firmware (environment).                                                 *)

FwConsume ==
  /\ ring # <<>>
  /\ fwHeld' = fwHeld \cup {Head(ring)}
  /\ ring' = Tail(ring)
  /\ UNCHANGED <<ind, hash, staged, pc, req, num, filled, served, lock, debt,
                 timerArmed, allocFails, mapFails>>

FwIndicate(c) ==
  /\ pc[c] = "idle"
  /\ \E S \in SUBSET fwHeld :
       /\ Cardinality(S) \in 1 .. MaxMsdu
       /\ ind' = Set(ind, c, S)
       /\ fwHeld' = fwHeld \ S
  /\ pc' = Set(pc, c, "pop")
  /\ UNCHANGED <<ring, hash, staged, req, num, filled, served, lock, debt,
                 timerArmed, allocFails, mapFails>>

-----------------------------------------------------------------------------
(* htt_rx_amsdu_rx_in_order_pop_ll, as the refill engine sees it: every    *)
(* address of the indication is looked up and removed from the hash table  *)
(* (htt_rx_in_order_netbuf_pop); the buffers go up the stack.  The caller  *)
(* then asks htt_rx_msdu_buff_in_order_replenish for msdu_count buffers.   *)
RxPop(c) ==
  /\ pc[c] = "pop"
  /\ hash' = hash \ ind[c]
  /\ req' = Set(req, c, Cardinality(ind[c]))
  /\ ind' = Set(ind, c, {})
  /\ pc' = Set(pc, c, "trylock")
  /\ UNCHANGED <<ring, fwHeld, staged, num, filled, served, lock, debt,
                 timerArmed, allocFails, mapFails>>

(* fill_n's entry: idx is read; num > size returns 0 without publishing.   *)
BeginFill(a, n) ==
  /\ num' = Set(num, a, n)
  /\ filled' = Set(filled, a, 0)
  /\ served' = Set(served, a, 0)
  /\ pc' = Set(pc, a, IF n > RingSize THEN "reconcile" ELSE "fill")

(* Return to the caller: fill_n's and the caller's locals are dead.        *)
Return(a) ==
  /\ pc' = Set(pc, a, "idle")
  /\ req' = Set(req, a, 0)
  /\ num' = Set(num, a, 0)
  /\ filled' = Set(filled, a, 0)
  /\ served' = Set(served, a, 0)

(* htt_rx_msdu_buff_in_order_replenish: qdf_spin_trylock_bh; on failure    *)
(* the request becomes debt unless the debt is already DebtMax or more,    *)
(* in which case the caller spins on the lock.                             *)
TryLock(c) ==
  /\ pc[c] = "trylock"
  /\ \/ /\ lock = NoActor
        /\ lock' = c
        /\ BeginFill(c, req[c])
        /\ UNCHANGED <<debt, req>>
     \/ /\ lock # NoActor
        /\ debt < DebtMax
        /\ debt' = debt + req[c]
        /\ Return(c)
        /\ UNCHANGED lock
     \/ /\ lock # NoActor
        /\ debt >= DebtMax
        /\ pc' = Set(pc, c, "block")
        /\ UNCHANGED <<lock, debt, req, num, filled, served>>
  /\ UNCHANGED <<ring, fwHeld, ind, hash, staged, timerArmed,
                 allocFails, mapFails>>

(* qdf_spin_lock_bh after a failed trylock with a large debt.              *)
BlockLock(c) ==
  /\ pc[c] = "block"
  /\ lock = NoActor
  /\ lock' = c
  /\ BeginFill(c, req[c])
  /\ UNCHANGED <<ring, fwHeld, ind, hash, staged, req, debt, timerArmed,
                 allocFails, mapFails>>

-----------------------------------------------------------------------------
(* htt_rx_ring_fill_n, one loop iteration at a time.  Every step runs      *)
(* under refill_lock, so only the debt and the firmware move meanwhile.    *)

(* alloc, clear attention, push_head, map, hash insert, paddrs_ring[idx]   *)
(* = paddr, idx++ & size_mask, filled++.                                   *)
FillPost(a) ==
  /\ pc[a] = "fill"
  /\ num[a] > 0
  /\ \E b \in FreeBufs :
       /\ hash' = hash \cup {b}
       /\ staged' = Set(staged, a, Append(staged[a], b))
  /\ num' = Set(num, a, num[a] - 1)
  /\ filled' = Set(filled, a, filled[a] + 1)
  /\ UNCHANGED <<ring, fwHeld, ind, pc, req, served, lock, debt, timerArmed,
                 allocFails, mapFails>>

(* qdf_nbuf_alloc fails: restart the retry timer, goto update_alloc_idx.   *)
FillAllocFail(a) ==
  /\ pc[a] = "fill"
  /\ num[a] > 0
  /\ FreeBufs = {} \/ allocFails < MaxAllocFail
  /\ allocFails' = IF FreeBufs = {} THEN allocFails ELSE allocFails + 1
  /\ timerArmed' = TRUE
  /\ pc' = Set(pc, a, "publish")
  /\ UNCHANGED <<ring, fwHeld, ind, hash, staged, req, num, filled, served,
                 lock, debt, mapFails>>

(* Mutant: the insert-failure path writes the slot before giving up.      *)
FillMapFailRecorded(a) ==
  /\ pc[a] = "fill"
  /\ num[a] > 0
  /\ FreeBufs # {}
  /\ mapFails < MaxMapFail
  /\ mapFails' = mapFails + 1
  /\ \E b \in FreeBufs : staged' = Set(staged, a, Append(staged[a], b))
  /\ pc' = Set(pc, a, "publish")
  /\ UNCHANGED <<ring, fwHeld, ind, hash, req, num, filled, served,
                 lock, debt, timerArmed, allocFails>>

(* qdf_nbuf_map fails, or htt_rx_hash_list_insert fails: the buffer is     *)
(* (unmapped and) freed, goto update_alloc_idx.  No timer is started.      *)
FillMapFail(a) ==
  /\ pc[a] = "fill"
  /\ num[a] > 0
  /\ FreeBufs # {}
  /\ mapFails < MaxMapFail
  /\ mapFails' = mapFails + 1
  /\ pc' = Set(pc, a, "publish")
  /\ UNCHANGED <<ring, fwHeld, ind, hash, staged, req, num, filled, served,
                 lock, debt, timerArmed, allocFails>>

(* Mutant: the debt loop tests debt_served != refill_debt.                 *)
DebtCheckNe(a) ==
  /\ pc[a] = "fill"
  /\ num[a] <= 0
  /\ pc' = Set(pc, a, IF served[a] # debt THEN "debtread" ELSE "publish")
  /\ UNCHANGED <<ring, fwHeld, ind, hash, staged, req, num, filled, served,
                 lock, debt, timerArmed, allocFails, mapFails>>

(* After the loop: if (debt_served < atomic_read(refill_debt)) ...         *)
DebtCheck(a) ==
  /\ pc[a] = "fill"
  /\ num[a] <= 0
  /\ pc' = Set(pc, a, IF served[a] < debt THEN "debtread" ELSE "publish")
  /\ UNCHANGED <<ring, fwHeld, ind, hash, staged, req, num, filled, served,
                 lock, debt, timerArmed, allocFails, mapFails>>

(* ... num = atomic_read(refill_debt); debt_served += num; goto moretofill *)
DebtTake(a) ==
  /\ pc[a] = "debtread"
  /\ num' = Set(num, a, debt)
  /\ served' = Set(served, a, served[a] + debt)
  /\ pc' = Set(pc, a, "fill")
  /\ UNCHANGED <<ring, fwHeld, ind, hash, staged, req, filled, lock, debt,
                 timerArmed, allocFails, mapFails>>

(* update_alloc_idx: qdf_mb(); *alloc_idx.vaddr = idx.  The slots written  *)
(* become visible to the firmware.                                         *)
Publish(a) ==
  /\ pc[a] = "publish"
  /\ ring' = ring \o staged[a]
  /\ staged' = Set(staged, a, <<>>)
  /\ pc' = Set(pc, a, "reconcile")
  /\ UNCHANGED <<fwHeld, ind, hash, req, num, filled, served, lock, debt,
                 timerArmed, allocFails, mapFails>>

(* Mutant: only a surplus is reconciled; a shortfall is dropped.          *)
ReconcileNoShortfall(c) ==
  /\ c \in RxCtx
  /\ pc[c] = "reconcile"
  /\ debt' = IF filled[c] > req[c] THEN debt - (filled[c] - req[c]) ELSE debt
  /\ lock' = NoActor
  /\ Return(c)
  /\ UNCHANGED <<ring, fwHeld, ind, hash, staged, timerArmed, allocFails,
                 mapFails>>

(* Mutant: the shortfall path returns without unlocking.                   *)
ReconcileKeepsLock(c) ==
  /\ c \in RxCtx
  /\ pc[c] = "reconcile"
  /\ debt' = IF filled[c] > req[c] THEN debt - (filled[c] - req[c])
                                   ELSE debt + (req[c] - filled[c])
  /\ lock' = IF filled[c] < req[c] THEN lock ELSE NoActor
  /\ Return(c)
  /\ UNCHANGED <<ring, fwHeld, ind, hash, staged, timerArmed, allocFails,
                 mapFails>>

(* htt_rx_msdu_buff_in_order_replenish after fill_n: a surplus is taken    *)
(* off the debt, a shortfall added to it; then unlock.                     *)
Reconcile(c) ==
  /\ c \in RxCtx
  /\ pc[c] = "reconcile"
  /\ debt' = IF filled[c] > req[c] THEN debt - (filled[c] - req[c])
                                   ELSE debt + (req[c] - filled[c])
  /\ lock' = NoActor
  /\ Return(c)
  /\ UNCHANGED <<ring, fwHeld, ind, hash, staged, timerArmed, allocFails,
                 mapFails>>

-----------------------------------------------------------------------------
(* htt_rx_ring_refill_retry.                                               *)

(* The timer expires; the callback spins on refill_lock.                   *)
TimerFire ==
  /\ timerArmed
  /\ pc[Timer] = "idle"
  /\ timerArmed' = FALSE
  /\ pc' = Set(pc, Timer, "block")
  /\ UNCHANGED <<ring, fwHeld, ind, hash, staged, req, num, filled, served,
                 lock, debt, allocFails, mapFails>>

(* Lock taken: num = read(refill_debt); atomic_sub(num); fill_n(num).      *)
TimerLock ==
  /\ pc[Timer] = "block"
  /\ lock = NoActor
  /\ lock' = Timer
  /\ req' = Set(req, Timer, debt)
  /\ debt' = 0
  /\ BeginFill(Timer, debt)
  /\ UNCHANGED <<ring, fwHeld, ind, hash, staged, timerArmed, allocFails,
                 mapFails>>

(* filled > num: subtract the surplus; filled = num: nothing; otherwise    *)
(* add the shortfall back; then unlock.                                    *)
RetryReconcile ==
  /\ pc[Timer] = "reconcile"
  /\ debt' = CASE filled[Timer] > req[Timer] ->
                    debt - (filled[Timer] - req[Timer])
               [] filled[Timer] = req[Timer] -> debt
               [] OTHER -> debt + (req[Timer] - filled[Timer])
  /\ lock' = NoActor
  /\ Return(Timer)
  /\ UNCHANGED <<ring, fwHeld, ind, hash, staged, timerArmed, allocFails,
                 mapFails>>

-----------------------------------------------------------------------------
FillStep(a) ==
  \/ FillPost(a) \/ FillAllocFail(a) \/ FillMapFail(a)
  \/ DebtCheck(a) \/ DebtTake(a) \/ Publish(a)

Driver ==
  \/ \E c \in RxCtx : RxPop(c) \/ TryLock(c) \/ BlockLock(c) \/ Reconcile(c)
  \/ \E a \in Actors : FillStep(a)
  \/ TimerFire \/ TimerLock \/ RetryReconcile

Firmware == FwConsume \/ \E c \in RxCtx : FwIndicate(c)

Next == Driver \/ Firmware

(* Every driver context that can run eventually runs (an expired timer's  *)
(* softirq runs, a context with work is scheduled).  refill_lock is a      *)
(* queued (FIFO) spinlock, so a context spinning on it gets it although    *)
(* it is only free from time to time: strong fairness on the acquisition.  *)
(* The firmware gets no fairness: traffic may stop at any time.            *)
Fairness ==
  /\ \A c \in RxCtx : WF_vars(RxPop(c) \/ TryLock(c) \/ Reconcile(c)
                                \/ FillStep(c))
  /\ \A c \in RxCtx : SF_vars(BlockLock(c))
  /\ WF_vars(TimerFire \/ RetryReconcile \/ FillStep(Timer))
  /\ SF_vars(TimerLock)

Spec == Init /\ [][Next]_vars /\ Fairness

-----------------------------------------------------------------------------
TypeOK ==
  /\ ring \in Seq(Bufs) /\ fwHeld \subseteq Bufs /\ hash \subseteq Bufs
  /\ ind \in [RxCtx -> SUBSET Bufs]
  /\ staged \in [Actors -> Seq(Bufs)]
  /\ pc \in [Actors -> {"idle", "pop", "trylock", "block", "fill",
                        "debtread", "publish", "reconcile"}]
  /\ req \in [Actors -> Int] /\ num \in [Actors -> Int]
  /\ filled \in [Actors -> Nat] /\ served \in [Actors -> Nat]
  /\ lock \in Actors \cup {NoActor}
  /\ debt \in Int /\ timerArmed \in BOOLEAN
  /\ allocFails \in 0 .. MaxAllocFail /\ mapFails \in 0 .. MaxMapFail

(* Buffers the caller of fill_n is still owed: a request not yet handed    *)
(* to the engine, or the part of the lock holder's request not yet posted  *)
(* (negative when the holder served other contexts' debt).                 *)
Owed(a) ==
  IF \/ pc[a] \in {"trylock", "fill", "debtread", "publish", "reconcile"}
     \/ pc[a] = "block" /\ a # Timer
  THEN req[a] - (IF lock = a THEN filled[a] ELSE 0)
  ELSE 0

(* Refill accounting: every buffer the firmware returned is either posted  *)
(* again, recorded in refill_debt, or still owed to an rx context or the   *)
(* timer, so the ring plus the debt always make up the fill level.  It is  *)
(* about the debt arithmetic of in_order_replenish, fill_n's debt loop and *)
(* refill_retry run by several contexts at once.                           *)
RefillAccounting ==
  Cardinality(hash) + debt + MapThenSumSet(Owed, Actors) = FillLevel

(* Every address the firmware can indicate is in the hash table, so        *)
(* htt_rx_hash_list_lookup never misses (a miss triggers recovery): the    *)
(* hash insert precedes the slot write, and every posted buffer stays in   *)
(* the table until its indication is popped.                               *)
LookupNeverMisses ==
  /\ Range(ring) \cup fwHeld \subseteq hash
  /\ \A c \in RxCtx : ind[c] \subseteq hash

(* The write index never laps the firmware's read index: the published     *)
(* slots not yet consumed plus the slots being written never exceed        *)
(* size - 1, so no slot the firmware has not consumed is overwritten and   *)
(* a full ring stays distinguishable from an empty one (spec: fill_cnt <=  *)
(* size - 1).  It is about fill_n's debt loop serving refill_debt.         *)
NoRingOverrun ==
  Len(ring) + MapThenSumSet(LAMBDA a : Len(staged[a]), Actors) <= RingSize - 1

(* The rx path is starved: no buffer is posted, held by the firmware or    *)
(* being handled, so no indication can arrive to trigger a replenish.      *)
Starved ==
  /\ ring = <<>> /\ fwHeld = {}
  /\ \A a \in Actors : pc[a] = "idle"

(* A starved rx ring is eventually given buffers again: refill_debt is     *)
(* never left unpaid with nothing left to pay it (the retry timer).        *)
NoPermanentStarvation == Starved ~> (ring # <<>>)

(* Every replenish request and every timer callback returns: no rx context *)
(* spins on refill_lock forever behind the other contexts and the timer    *)
(* (the blocking path taken when refill_debt reached DebtMax).             *)
RequestsComplete == \A a \in Actors : (pc[a] # "idle") ~> (pc[a] = "idle")

=============================================================================
