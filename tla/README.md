# TLA+ models of the qca-wifi-host-cmn rx ring and epping tx path

This directory holds TLA+ models of `src/core/dp/htt/htt_rx.c` and
`src/core/utils/epping/src/epping_tx.c`, with the TLC configurations that
check them.

`PROJECT.json` lists:

- the components, and which modules model them;
- the runs;
- the mutants that show each checked property can fail;
- the map from every definition to the source lines it translates;
- the findings;
- the hazards.

## The system

The host keeps an **rx ring** of physical buffer addresses that the target
firmware fills with received frames.

- **Ring indexes.** `alloc_idx` is the host's write index, and `fill_cnt`
  counts posted buffers. `fill_level` is the count the host tries to keep
  posted.
- **Full-reorder-offload (FRO) mode.** The firmware returns buffers by address
  in `HTT_RX_IN_ORD_PADDR_IND` messages.
  - The host maps each address back to its buffer through the **address hash
    table** (`htt_rx_hash_list_insert` / `_lookup`). The table has per-bucket
    lists, a pre-allocated freepool per bucket, and `qdf_mem_malloc`
    overflow entries.
  - `htt_rx_amsdu_rx_in_order_pop_ll` walks the message and builds the MSDU
    chain, splicing out MSDUs with MIC errors.
  - Each rx context (one per CPU) then replenishes as many buffers as it
    popped.
- **Refill.** Refill uses `refill_lock` (a spinlock, taken with `trylock`)
  and `refill_debt` (an atomic counter).
  - A caller that cannot take the lock adds its request to the debt. It spins
    instead if the debt is at `RX_RING_REFILL_DEBT_MAX`.
  - The lock holder's `htt_rx_ring_fill_n` posts its own buffers, then the
    debt it finds, then publishes `alloc_idx`.
  - An allocation failure starts `refill_retry_timer`, which later takes the
    whole debt.
- **Ordered (non-FRO) mode.** Buffers come back in ring order.
  `htt_rx_amsdu_pop_ll` pops them with `htt_rx_netbuf_pop` as the rx
  descriptors say. The descriptors give:
  - the MSDU length;
  - a length-error flag;
  - the number of continuation buffers (ring2 more count);
  - the `last_msdu` bit;
  - the done bit, which the hardware sets when it has finished writing.
- **epping tx.** The endpoint-ping test path sends through HTC, using a pool
  of cookies.
  - A "nodrop" packet that cannot be sent goes into the nodrop queue.
  - The queue is flushed first by every transmit, and by a retry timer whose
    state (`STOPPED`/`RUNNING`) is guarded by `data_lock`.
  - HTC's completion callback returns cookies and frees skbs.

## Modules

| Module | Models | Checked by |
|---|---|---|
| `HttRxRefill` | FRO refill: replenish, `fill_n`, retry timer, attach fill | `refill_safety`, `refill_overrun`, `refill_starve` |
| `HttRxHash` | The hash table: init, insert, lookup, deinit; `htt_rx_attach`'s and `htt_rx_detach`'s full-reorder-offload allocations; the offload paddr pop; the IPA SMMU mappings of its buffers and `htt_rx_update_smmu_map` | `hash_safety`, `hash_init_fail`, `hash_smmu` |
| `HttRxAddrMap` | Abstract spec: the address map the hash table promises | Refined by `HttRxHash` in `hash_safety` |
| `InOrderPop` | `htt_rx_amsdu_rx_in_order_pop_ll` | `pop_safety` (through `HttRxAmsduPop`), `inorder_head` |
| `AmsduPopLL` | `htt_rx_amsdu_pop_ll` with `htt_rx_netbuf_pop` | `pop_safety` (through `HttRxAmsduPop`) |
| `HttRxAmsduPop` | `htt_rx_amsdu_pop`: the pop `htt_rx_attach` programs, composing the two above | `pop_safety` |
| `HttRxRingLL` | Ordered-mode refill: `htt_rx_msdu_buff_replenish`, `fill_ring_count`, `fill_n`, the retry timer, `netbuf_pop`; ring sizing | `ringll_safety`, `ringll_stale` |
| `EppingTx` | `epping_tx.c`: send, retry timer, completion, echo | `epping_safety`, `epping_retry` |

Each `MC_<Module>.tla` extends its module and only supplies model values,
small constant definitions and symmetry sets. Each `MC_<Module>_<run>.cfg`
is one run.

### `HttRxRefill`: the FRO refill engine

**Variables.**

| Variable | Meaning |
|---|---|
| `ring` | Published, unconsumed slots, as a sequence |
| `staged[a]` | Slots written by the holder but not yet published |
| `fwHeld` | Buffers the firmware has taken |
| `ind[c]` | The indication context `c` is popping |
| `hash` | The set of inserted addresses. `HttRxHash` refines this set. |
| `lock` | `refill_lock` |
| `debt` | `refill_debt` |
| `timerArmed` | Whether `refill_retry_timer` is armed |
| `pc`, `req`, `num`, `filled`, `served` | Per-context program counter and the locals of `fill_n` and its caller |

**Actions.**

| Source | Actions |
|---|---|
| `htt_rx_msdu_buff_in_order_replenish` | `TryLock`, `BlockLock` and `Reconcile` |
| `fill_n` (one step each) | `BeginFill`, `FillPost`, `FillAllocFail`, `FillMapFail`, `DebtCheck`, `DebtTake` and `Publish` |
| The retry timer | `TimerFire`, `TimerLock` and `RetryReconcile` |
| The in-order pop's hash removals | `RxPop` (abstracted) |

The firmware is the environment:

- `FwConsume` takes the next published slot.
- `FwIndicate` returns held buffers to an idle context.

**Properties.**

| Property | Kind | Statement |
|---|---|---|
| `RefillAccounting` | Invariant | Buffers in the table + debt + what every in-flight request still owes = `fill_level` |
| `LookupNeverMisses` | Invariant | Every address the firmware holds or indicates is in the table |
| `NoRingOverrun` | Invariant | Posted + staged slots never exceed `size - 1` |
| `RequestsComplete` | Liveness | Every replenish call and timer callback returns |
| `NoPermanentStarvation` | Liveness | An empty, idle ring is eventually refilled |

### `HttRxHash` and `HttRxAddrMap`: the address hash table

**Abstract spec.** `HttRxAddrMap` is the promise: a partial map from address
to buffer.

- Insert adds a pair, or fails.
- Lookup removes the pair and returns its buffer.
  - A miss triggers recovery.
  - After detach, lookup returns NULL quietly.
- Deinit detaches the table, then releases each buffer once.

**Implementation.** `HttRxHash` keeps what the code keeps:

| Variable | Meaning |
|---|---|
| `listhead[b]` | The active list of bucket `b`, as entries `[slot, paddr, netbuf]`. Slot 0 marks a malloc'd entry. |
| `freepool[b]` | The pre-allocated entries that are free |
| `heap` | The count of malloc'd entries alive |
| `inited` | The buckets allocated by `htt_rx_hash_init` |
| `tstate` | `init`, `ready`, `detached`, `freed` or `failed` |
| `smmuMap` | `rx_ring.smmu_map` |
| `mapped` | The buffers with an IPA SMMU mapping |
| `popIpa`, `deinitIpa` | The `ipa_smmu` that the in-order pop and deinit each read at entry |
| `updPc`, `updMap` | Where `htt_rx_update_smmu_map` is (`idle`, `walk`, or `null` after a NULL walk) and its argument |
| `attachPc` | Where `htt_rx_attach` or `htt_rx_detach` is: an allocation, an unwind label (`fail4`, `fail3`, `fail2`), `up`, `detach`, `failed` or `gone` |
| `dmaMem` | The `qdf_mem_alloc_consistent` blocks alive: `target_idx`, `paddrs_ring`, `alloc_idx` |
| `freedTwice` | Set when a block that is not alive is freed |

The bucket lists use `HttListInit`, `HttListAddTail` and `HttListRemove`,
the `htt_list_*` helpers, over sequences.

**Attach and detach.** In full-reorder-offload mode `htt_rx_attach` runs
`htt_rx_hash_init` and then three DMA allocations (`AttachTargetIdx`,
`AttachPaddrsRing`, `AttachAllocIdx`). Each may fail, within
`MaxMallocFail`. A failure jumps to its label, and `AttachUnwind` falls
through the labels as the C does: `fail4` frees `paddrs_ring`, `fail3`
frees `target_idx`, and `fail2` runs `htt_rx_hash_deinit` (the deinit
actions) before returning. Inserts happen only once attach is `up`.
`DetachBegin` frees `target_idx` and starts the deinit. `DetachEnd` frees
`alloc_idx` and `paddrs_ring` once the table is freed. The timer calls at
the top of `htt_rx_detach` are outside src/.

**Offload pop.** `OffloadPaddrPop` is `htt_rx_offload_paddr_msdu_pop_ll`:
a hash lookup, then the DMA unmap. It has no SMMU unmap.

**IPA SMMU.** The constant `IpaUcSmmu` is `qdf_mem_smmu_s1_enabled &&
is_ipa_uc_enabled`. Each function reads `ipa_smmu` where the code does:

- `fill_n` reads it under `refill_lock`. It maps the buffer it has inserted
  (`FillSmmuMap`).
- The in-order pop reads it at entry without a lock (`PopBegin`). Each
  buffer it looks up is then unmapped or not by that value
  (`PopSmmuUnmap`).
- Deinit reads it before the detach, and its walk unmaps by that value
  (`DeinitSmmuUnmap`).
- `htt_rx_update_smmu_map` runs in two steps:
  - `SmmuUpdateCheck`: the unlocked NULL and IPA test.
  - `SmmuUpdateWalk`: under the locks, it sets `smmu_map`, then runs
    `HashSmmuMap`. That walk visits the buffers in `SmmuWalkOrder` and may
    fail at any buffer (at most `MaxSmmuFail` times), leaving the prefix
    before it done.
  - If deinit detached the table in between, the walk dereferences NULL
    (`updPc = "null"`).

**Hashing.** `RxHashFunction` is `RX_HASH_FUNCTION`, written with Bitwise
shifts and xor. The MC addresses `0x10` and `0x4000` collide in bucket 1.

**Refinement.** `AddrMap == INSTANCE HttRxAddrMap WITH amap <- ..., tstate <-
AbsState` maps the lists onto the abstract map. `RefinesAddrMap ==
AddrMap!ASpec` is checked as a `PROPERTY`.

**Other properties.**

- `PoolPartition`: each pre-allocated slot is on exactly one of its bucket's
  two lists.
- `HeapBalanced`: `heap` equals the number of malloc'd entries linked in
  the table.
- `ResourcesReleased`: no DMA block is freed twice, and once attach has
  failed or detach has finished, no block is alive and the table is freed.
  A fall-through label that is skipped or repeated breaks it.
- `NeverDerefsNull`: no NULL pointer is dereferenced. This covers a
  failed bucket in init and the update's walk of a detached table. It is
  checked by a violation run.
- `SmmuMatchesTable`: with IPA SMMU, while `smmu_map` is set the mapped
  buffers are exactly the table's buffers, and while it is clear none is
  mapped. No buffer that has left the table keeps a mapping. It is checked
  by a violation run.

### `InOrderPop`: the in-order MSDU chain

The message is an input: MSDU count, offload flag, MIC errors per record,
and which pops fail. The actions are `PopFirst`, `MsduMicError` and
`MsduDeliver`, one per loop iteration.

- `ChainMatchesIndication`: on return 1, the chain is the records without
  MIC errors, in order, and every popped buffer is on it or freed, never both.
- `HeadNeverFreed`: `*head_msdu` is never a freed buffer. This one is a
  violation run.

### `HttRxAmsduPop`: the programmed pop

`htt_rx_attach` sets the function pointer `htt_rx_amsdu_pop` from
`cfg.is_full_reorder_offload`: to the in-order pop in FRO mode, else to
`htt_rx_amsdu_pop_ll`. `HttRxAmsduPop` extends `AmsduPopLL` and
instantiates `InOrderPop` with renamed variables.

- `PopInit` chooses the mode. It starts the chosen pop and holds the other
  at a fixed entry state (`IoUnused`, `LlUnused`).
- `PopNext` steps only the chosen pop.
- `pop_safety` checks the properties of both pops in one run.

### `AmsduPopLL`: ordered-mode A-MSDU reassembly

**Inputs.**

- The descriptors of the posted buffers.
- At most one buffer whose done bit is not set when first read, and whether
  it is set later during the poll.
- The build options: the `0x3000` workaround, `DEBUG_DMA_DONE` and
  `HTT_RX_RESTORE`.

Assumption `Honest`: the descriptors describe an MPDU that fits in the posted
buffers.

**Actions.**

| Action | What it models |
|---|---|
| `MsduUnpack` | Reset length, pull header, done-bit check (assert, or poll then restore-return), FW descriptor byte, single-buffer trim |
| `ChainPop` | One continuation buffer, with the unsigned clamp |
| `MsduLast` | The `last_msdu` test, or the next pop |

**Lengths.** Lengths are the code's integers. `TrimTail` is what
`qdf_nbuf_trim_tail` does: `skb_trim` of `len - size` in unsigned
arithmetic, which ignores a size that is negative or larger than the
length.

**Properties.**

- `ChainWellFormed`: the chain links every popped buffer in order and ends
  in NULL. This holds on every return, including the restore return. It also
  checks the return value.
- `MsduLengths`: an MSDU whose declared length fits its buffers is delivered
  with exactly that length. Any other MSDU gets at most its buffers'
  capacity.

### `HttRxRingLL`: the ordered-mode ring

In ordered (non-FRO) mode, `htt_rx_msdu_buff_replenish` lets one context
at a time refill: `qdf_atomic_dec_and_test(&refill_ref_cnt)` elects it, and
the others skip. `htt_rx_fill_ring_count` then calls
`fill_n(fill_level - fill_cnt)`. The retry timer does not go through
`refill_ref_cnt`: it takes `refill_lock`, which this path never takes, and
calls `fill_n(refill_debt)` with a debt that is always 0 in this mode.

**Variables.** `allocIdx` (`*alloc_idx.vaddr`), `swRd` (`sw_rd_idx`),
`fillCnt`, `refCnt` (`refill_ref_cnt`), `fwIdx` (the firmware's fill
index), `posted` and `done` (slots holding a posted buffer, and those the
firmware has filled), `armed` (the retry timer), and per actor `pc` and
`fill_n`'s locals `num` and `idx`. `allocFails` and `mapFails` bound the
injected failures.

**Actions.**

| Source | Actions |
|---|---|
| `htt_rx_msdu_buff_replenish` | `ReplenishDec`, `ReplenishInc` |
| `htt_rx_fill_ring_count` and `fill_n`'s entry | `FillRingCount` (with `FillBegin`) |
| `fill_n`'s loop and exits | `FillPost`, `FillAllocFail`, `FillMapFail`, `FillDone`, `FillPublish` |
| `htt_rx_ring_refill_retry` | `RefillRetry` |
| The firmware | `FwFill` fills the slot at its index while it differs from `alloc_idx` |
| `htt_rx_netbuf_pop` | `NetbufPop` |

A caller's read of `fill_cnt` and `fill_n`'s read of `alloc_idx` are one
step, since no other actor writes both. The exits after the map failure
and the end of the loop read no shared state before the write of
`alloc_idx`, so they write it in the same step; the allocation-failure exit
arms the timer first, and its write is a step of its own.

`fill_n` returns at once when `num` exceeds the ring size; this matters once
`fill_cnt` has gone negative.

**Sizing.** `RingSizeFor` and `FillLevelFor` translate `htt_rx_ring_size`
and `htt_rx_ring_fill_level`, with `qdf_get_pwr2` (outside `src/`) taken to
round up to a power of two. No property checks them. Their upper bounds
follow from the clamps alone. The spec's lower bound of 128 for a fill level
whose formula undershoots is not met by the code (below 8 mbps the formula
gives 0). Showing that would take a violation run of its own. The ring
steps run on the constants `RingSize` and `FillLevel`, a small stand-in for
the computed size.

**Properties.**

| Property | Kind | Statement |
|---|---|---|
| `FillCntBounded` | Invariant | `fill_cnt` never exceeds `fill_level`: `refill_ref_cnt` lets one context fill at a time |
| `FwFillsOnlyPosted` | Action property | The firmware only fills a slot that holds a posted buffer |

### `EppingTx`: the epping transmit path

**Variables.**

| Variable | Meaning |
|---|---|
| `nodrop` | The nodrop queue, as a sequence |
| `tstate` | `epping_timer_state` |
| `armed` | Whether the kernel timer is pending |
| `cookies` | Free cookies |
| `htc` | Skbs HTC holds |
| `netifStopped` | Netif queue state |
| `txPc` | Program counter of the tx path |
| `tmPc` | Program counter of the callback |

**Actions.**

- The tx path: `TxStart`, `TxRemove`, `TxSendQueued`, `TxSendOrig` and
  `TxFail`.
- The callback: `TimerFire`, `TmCheck`, `TmStop`, `TmRemove`,
  `TmSendQueued` and `TmRearm`.
- HTC: `TxComplete` and `TxQueueFull`.
- The rx echo: `TxDupPkt`.

Each operation on the unlocked nodrop queue is its own step. The
`cdf_nbuf_queue_*` functions are outside `src/`, and each is taken as
atomic. So the model cannot show two contexts taking the same head, or a
requeued skb lost, and no property claims that skbs are conserved. The
`data_lock` test-and-set (`ArmIfNotRunning`) is one step.

**Properties.**

- `CookiesConserved`: with a valid endpoint, free cookies + cookies held by
  HTC = pool size.
- `NoDropEventuallySent`: a queued nodrop skb is eventually sent. This one
  is a violation run.

## Runs

| Run | Expect | What it shows |
|---|---|---|
| `refill_safety` | pass | Refill accounting and hash coverage, and that every replenish call and timer callback returns (including the blocking path at `DebtMax`), with 2 contexts, the timer and firmware, and an allocation and a map failure |
| `ringll_safety` | pass | In ordered mode only one context refills at a time (`fill_cnt` never exceeds `fill_level`), even after the timer race below. About 9M states in under 2 minutes. |
| `hash_safety` | pass | The lists refine the address map. Pool partition and heap balance hold through init failures, freepool overflow, hits, misses and deinit. Every attach failure point and detach release each DMA block exactly once. About 153k states in 2:20. |
| `pop_safety` | pass | Either pop attach can program. In-order: the chain is exactly the MIC-free records, for every message of up to 3 MSDUs. Ordered: every 3-buffer layout, with lengths at each boundary, every build, and done bits late or missing. The chain is well formed, and lengths are exact when they fit. This run has 6.2M states and takes about 95 s. |
| `epping_safety` | pass | Cookie conservation with a valid endpoint, under every interleaving of the four contexts (each nodrop-queue operation one step) |
| `refill_overrun` | violation | `fill_n` re-serves debt it already served, which overruns the ring |
| `refill_starve` | violation | An empty ring stays empty: debt added after the holder's last check, a map failure that arms no timer, or a short attach fill |
| `ringll_stale` | violation | The retry timer writes back a stale `alloc_idx`, and the firmware fills slots the host has already popped |
| `hash_init_fail` | violation | A failed bucket malloc is dereferenced before a NULL test that can never fire |
| `hash_smmu` | violation | A pop that read `smmu_map` before `htt_rx_update_smmu_map(true)` removes a buffer the update mapped, and leaves it mapped. The offload paddr pop never unmaps at all. |
| `inorder_head` | violation | A MIC error on the first MSDU, then a failed pop, returns a freed `*head_msdu` |
| `epping_retry` | violation | A queued nodrop skb is never sent: the unlocked `STOPPED` write, and a callback that can never re-arm |

For every property of every passing run, `PROJECT.json` names a mutant. A
mutant is a definition of the model changed as a plausible bug would change
the code, and TLC finds the property violated under the run's own cfg.

## Findings

- **Refill.**
  - The debt loop re-serves served debt and overruns the ring
    (htt_rx.c:522).
  - Late debt is never paid (htt_rx.c:2207).
  - A map failure arms no timer (htt_rx.c:479).
  - Attach ignores its fill shortfall (htt_rx.c:2681).
- **Ordered-mode ring.** The retry timer reads `alloc_idx`, a replenishing
  context posts and publishes, and the timer's `fill_n(0)` then writes the
  old index back (htt_rx.c:534). The firmware refills slots the host already
  popped, a DMA into freed buffers, and the host pops a slot twice, driving
  `fill_cnt` negative.
- **Hash table.** `htt_rx_hash_init` dereferences a failed allocation, and
  its NULL test checks the wrong pointer (htt_rx.c:2491).
- **IPA SMMU.** The in-order pop reads `smmu_map` without a lock at entry
  (htt_rx.c:1666), so an update that runs during the pop leaves a popped
  buffer mapped, or unmaps it twice. Deinit reads the flag the same way
  (htt_rx.c:143). A failed mapping in `htt_rx_hash_smmu_map` returns with
  `smmu_map` set and no rollback (htt_rx.c:2962). With `MaxSmmuFail = 1`,
  TLC finds this in 7 steps. `htt_rx_offload_paddr_msdu_pop_ll` pops a
  buffer from the table with no SMMU unmap at all (htt_rx.c:1588), so every
  buffer it hands up stays IPA-mapped, with no race needed.
- **In-order pop.** A dangling `*head_msdu` after a MIC error and a failed
  pop (htt_rx.c:1787).
- **epping.**
  - A lost wakeup between the callback's empty-queue test and its unlocked
    `STOPPED` write (epping_tx.c:180).
  - The callback's re-arm test is always false, so after one failed retry the
    timer is dead until new traffic (epping_tx.c:205).

## Bounds

| Constant | Value | Why it is enough |
|---|---|---|
| `RingSize` | 4 | |
| `FillLevel` | 3 | The overrun needs `fill_level = size - 1` |
| Refill `MaxMsdu` | 1 in `refill_safety`, 3 elsewhere | One MSDU per indication keeps the liveness check of `refill_safety` in time; the starvation and overrun paths need more |
| HttRxRingLL ring | 4 slots, fill level 2 (`ringll_safety`), 3 (`ringll_stale`) | The stale write-back needs the index to move while the timer is in `fill_n`; fill level 3 in the pass run gives 19M states |
| HttRxRingLL failures | 1 allocation, 1 map | One allocation failure arms the timer once |
| `DebtMax` | 2 | Stands for 128. Two contexts reach both sides of the test. |
| Refill buffers | 5 (4 in `refill_safety`) | `FillLevel + 1`: a buffer can be in flight while the ring is full |
| Hash `NumBuckets` | 1024 | As in the code (`RX_NUM_HASH_BUCKETS`) |
| Hash `EntriesSize` | 1 | Every second entry of a bucket overflows to malloc |
| Hash addresses | 3 | Two collide, one is alone |
| Hash `MaxMallocFail` | 1 | One failure, at the bucket malloc, an entry malloc or any of attach's three DMA allocations, reaches each unwind label |
| Hash `MaxSmmuFail` | 1 in `hash_safety`, 0 in `hash_smmu` | One failure reaches a partial walk. With none, `hash_smmu`'s counterexample is the race alone. |
| InOrderPop `MaxCount` | 3 | A MIC error can be first, middle, last, or several in a row |
| AmsduPopLL buffers | 3 posted, ring of 4 | A chained MSDU followed by a single one, or three single ones |
| AmsduPopLL lengths | See below | |
| AmsduPopLL buffer sizes | `BufSize` 1920, `DescSize` 256 | See below |
| epping | 3 skbs, 1 echo, 2 cookies, 2 HTC refusals | Every kind of skb; the pool can be empty while HTC holds both cookies |

AmsduPopLL lengths sit at each boundary:

- single-buffer: 0, full, one over, above `0x3000`;
- one continuation: one short, exactly one buffer, full, one over.

`BufSize` is `HTT_RX_BUF_SIZE`. `DescSize` stands for `RX_STD_DESC_SIZE`,
taken equal to `HTT_RX_STD_DESC_RESERVATION`. Both are defined outside
`src/`.

Symmetry is used only where `Init` is symmetric, and never with liveness.

## Fairness

- **HttRxRefill.**
  - Rx contexts and the timer callback get weak fairness. A running
    context keeps being scheduled, and an expired timer's softirq runs.
  - `BlockLock` and `TimerLock` get strong fairness. The kernel's queued
    spinlock serves every waiter, even though the lock is free only at
    times.
  - The firmware gets no fairness, because traffic may stop.
- **EppingTx.**
  - The steps of a started `epping_tx_send` get weak fairness.
  - The timer, once armed, fires, and its callback runs to its end.
  - HTC completes what it holds.
  - The stack's traffic and the rx echoes get no fairness.
  - `NoDropEventuallySent` fails even so.
- **HttRxRingLL.** Checked for safety only, with no fairness: the
  ordered-mode timer refills nothing, so no liveness property would hold
  for a reason worth stating.
- **The other modules.** Each models one sequential call and is checked for
  safety only. These runs set `CHECK_DEADLOCK FALSE` because a call ends,
  and the refill and epping runs set it because traffic may stop for good.

## Plan

1. **Corrupted descriptors in `AmsduPopLL`.** Setting `Honest = FALSE` shows
   pops past the posted buffers (hazard at htt_rx.c:1387).
2. **epping.** The nodrop queue's unlocked operations as separate reads
   and writes of the queue head, which would show skbs sent twice or lost
   (hazards at epping_tx.c:255 and 191), and the pad pushed again on each
   retry (epping_tx.c:130).
3. **Ordered mode.** The spec's lower bound on the fill level for slow
   links, which the code does not meet (htt_rx.c:581), and
   liveness of the ordered-mode timer, which refills nothing.
4. **Ordered-mode detach**, whose walk over `[sw_rd_idx, alloc_idx)` depends on
   the index the stale write-back corrupts (hazard at htt_rx.c:666).

## Not modelled

- **Descriptor field accessors, the ordered-mode offload-deliver pop,
  statistics and logging.** These are pure extraction, or a netbuf pop like
  the one `AmsduPopLL` models. The full-reorder-offload pop is modelled.
- **The IPA SMMU mapping calls themselves**, and how `is_ipa_uc_enabled`
  and SMMU stage 1 get set. The calls are I/O. Both flags are set outside
  src/, so `IpaUcSmmu` is a constant. Which buffers are mapped is
  modelled.
- **Checksum offload and the HELIUMPLUS l3 pad.** The pad is taken as 0.
- **`qdf_status.h`.** It is an enum.
- **The race on epping's nodrop queue.** `cdf_nbuf_queue_remove` and
  `cdf_nbuf_queue_insert_head` are outside `src/`, and each is one step
  of `EppingTx`. The tx path and the timer callback call them concurrently
  without a lock, so on the real queue an skb can be taken twice or lost.
  The model cannot show that, and no property claims otherwise.
- **The plain-int read-modify-write of `fill_cnt`** by the pop and the
  refill in ordered mode. Each update is one step; lost updates are not
  modelled.
- **Ordered-mode attach and detach**, and the timer calls in detach.
  `qdf_timer_stop` and `qdf_timer_free` are outside src/. The ordered
  detach walk would need `HttRxRingLL`'s ring state joined with the buffer
  lifecycle. Its hazard is the stale `alloc_idx` that `ringll_stale`
  already shows.
- **The firmware, HTC, the kernel timer and the network stack.** They are
  modelled only as the environment described above.
