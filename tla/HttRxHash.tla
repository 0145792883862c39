------------------------------ MODULE HttRxHash ------------------------------
(***************************************************************************)
(* The rx address hash table of htt_rx.c (full-reorder-offload mode):      *)
(*                                                                         *)
(*   htt_rx_hash_init         table of RX_NUM_HASH_BUCKETS bucket pointers, *)
(*                            each bucket allocated with RX_ENTRIES_SIZE    *)
(*                            entries, all put on its freepool             *)
(*   htt_rx_hash_list_insert  entry from the bucket's freepool, else       *)
(*                            qdf_mem_malloc (fromlist = 0); appended to    *)
(*                            the bucket's active list                     *)
(*   htt_rx_hash_list_lookup  first entry of the bucket with the address;  *)
(*                            unlinked, back to the freepool or freed      *)
(*   htt_rx_hash_deinit       detach under rx_hash_lock, then walk every    *)
(*                            bucket freeing buffers and malloc'd entries  *)
(*                                                                         *)
(* Every operation but deinit's walk runs under rx_hash_lock and is one    *)
(* step.  Addresses are integers and the bucket is computed by             *)
(* RX_HASH_FUNCTION; only the buckets the addresses of the model hash to   *)
(* are represented, the others are never touched.  An entry is a record:   *)
(* slot 1..EntriesSize is a pre-allocated entry of its bucket, slot 0 an   *)
(* entry from qdf_mem_malloc.                                              *)
(***************************************************************************)
EXTENDS Integers, Sequences, FiniteSets, Bitwise, SequencesExt

CONSTANTS
  Addrs,          \* physical addresses (already stripped of marking bits)
  Bufs,           \* network buffers
  NoBuf,          \* NULL
  NumBuckets,     \* RX_NUM_HASH_BUCKETS
  EntriesSize,    \* RX_ENTRIES_SIZE
  MaxMallocFail,  \* bound on injected qdf_mem_malloc / _alloc_consistent
                  \* failures
  IpaUcSmmu,      \* qdf_mem_smmu_s1_enabled && pdev->is_ipa_uc_enabled
  MaxSmmuFail     \* bound on injected cds_smmu_map_unmap failures

VARIABLES
  tstate,      \* "none", "init", "ready", "detached", "freed", "failed"
  inited,      \* buckets htt_rx_hash_init has set up
  listhead,    \* listhead[b]: the active list of bucket b
  freepool,    \* freepool[b]: free pre-allocated slots of bucket b
  heap,        \* entries allocated with qdf_mem_malloc and not yet freed
  ret,         \* the buffer the last lookup returned, or NoBuf
  released,    \* buffers deinit has unmapped and freed
  recovery,    \* a lookup missed: cds_trigger_recovery
  fault,       \* a NULL bucket pointer was dereferenced
  mallocFails,
  smmuMap,     \* rx_ring.smmu_map
  mapped,      \* buffers with an IPA SMMU mapping (cds_smmu_map_unmap)
  popIpa,      \* ipa_smmu of the in-order pop in progress, read at its entry
  deinitIpa,   \* ipa_smmu of htt_rx_hash_deinit, read at its entry
  updPc,       \* htt_rx_update_smmu_map: "idle", "walk", "null" (NULL deref)
  updMap,      \* its map argument
  smmuFails,
  attachPc,    \* where htt_rx_attach / htt_rx_detach are
  dmaMem,      \* the DMA-coherent blocks allocated and not freed
  freedTwice   \* a block was freed that was not allocated

hvars == <<tstate, inited, listhead, freepool, heap, ret, released, recovery,
           fault, mallocFails>>
svars == <<smmuMap, mapped, popIpa, deinitIpa, updPc, updMap, smmuFails>>
avars == <<attachPc, dmaMem, freedTwice>>
vars == <<hvars, svars, avars>>

(* RX_HASH_FUNCTION(a) = ((a >> 14) ^ (a >> 4)) & RX_NUM_HASH_BUCKETS_MASK *)
RxHashFunction(a) == (shiftR(a, 14) ^^ shiftR(a, 4)) & (NumBuckets - 1)

Buckets == {RxHashFunction(a) : a \in Addrs}

Slots == 1 .. EntriesSize

Entry == [slot : 0 .. EntriesSize, paddr : Addrs, netbuf : Bufs]

Entries == UNION {ToSet(listhead[b]) : b \in Buckets}

Keys == {e.paddr : e \in Entries}
Vals == {e.netbuf : e \in Entries}

(* The bucket lists are circular doubly-linked lists through a head node; *)
(* a list is the sequence of its nodes from head->next.                     *)
(* htt_list_init: head->prev = head->next = head.                           *)
HttListInit == <<>>

(* htt_list_add_tail(head, node): node linked between head->prev and head. *)
HttListAddTail(l, node) == Append(l, node)

(* htt_list_remove(node): node->prev and node->next linked to each other;  *)
(* the node at position i of the list.                                      *)
HttListRemove(l, i) == RemoveAt(l, i)

-----------------------------------------------------------------------------
Init ==
  /\ tstate = "none"
  /\ inited = {}
  /\ listhead = [b \in Buckets |-> HttListInit]
  /\ freepool = [b \in Buckets |-> HttListInit]
  /\ heap = 0
  /\ ret = NoBuf
  /\ released = {}
  /\ recovery = FALSE
  /\ fault = FALSE
  /\ mallocFails = 0
  /\ smmuMap = FALSE
  /\ mapped = {}
  /\ popIpa = FALSE
  /\ deinitIpa = FALSE
  /\ updPc = "idle"
  /\ updMap = FALSE
  /\ smmuFails = 0
  /\ attachPc = "hash"
  /\ dmaMem = {}
  /\ freedTwice = FALSE

(* ipa_smmu as a function computes it at its entry, without a lock:       *)
(* qdf_mem_smmu_s1_enabled && is_ipa_uc_enabled && rx_ring.smmu_map.      *)
IpaSmmu == IpaUcSmmu /\ smmuMap

(* qdf_mem_malloc of the bucket pointer array; on failure return 1 and     *)
(* htt_rx_attach fails.                                                    *)
HashInitTable ==
  /\ tstate = "none"
  /\ \/ /\ tstate' = "init"
        /\ UNCHANGED mallocFails
     \/ /\ mallocFails < MaxMallocFail
        /\ mallocFails' = mallocFails + 1
        /\ tstate' = "failed"
  /\ UNCHANGED <<inited, listhead, freepool, heap, ret, released, recovery,
                 fault>>

(* One iteration of the bucket loop: allocate bucket + entries, init both  *)
(* lists, put every entry on the freepool.  A failed allocation stores     *)
(* NULL in hash_table[i] and the next line, htt_list_init, dereferences   *)
(* it: the NULL test that follows is on entries, computed as allocation + *)
(* sizeof(bucket), which is never NULL.                                    *)
HashInitBucket ==
  /\ tstate = "init"
  /\ ~fault
  /\ LET b == CHOOSE x \in Buckets \ inited :
                \A y \in Buckets \ inited : x <= y
     IN \/ /\ inited' = inited \cup {b}
           /\ freepool' = [freepool EXCEPT ![b] = [j \in Slots |-> j]]
           /\ tstate' = IF inited' = Buckets THEN "ready" ELSE "init"
           /\ UNCHANGED <<fault, mallocFails>>
        \/ /\ mallocFails < MaxMallocFail
           /\ mallocFails' = mallocFails + 1
           /\ fault' = TRUE
           /\ UNCHANGED <<inited, freepool, tstate>>
  /\ UNCHANGED <<listhead, heap, ret, released, recovery>>

-----------------------------------------------------------------------------
(* Mutant: the freepool head is used without htt_list_remove.            *)
HashListInsertPeek(a, nb) ==
  /\ tstate = "ready"
  /\ a \notin Keys
  /\ nb \notin Vals
  /\ LET b == RxHashFunction(a) IN
       /\ freepool[b] # <<>>
       /\ listhead' = [listhead EXCEPT ![b] =
             Append(@, [slot |-> Head(freepool[b]), paddr |-> a,
                        netbuf |-> nb])]
  /\ UNCHANGED <<freepool, heap, mallocFails, tstate, inited, ret, released,
                 recovery, fault>>

(* htt_rx_hash_list_insert(paddr, netbuf), called by fill_n for a buffer  *)
(* it has just mapped: its address is not in the table.  The entry comes  *)
(* from the head of the freepool, else from qdf_mem_malloc; a failed      *)
(* malloc returns 1 with nothing changed.  It is appended to the bucket.  *)
HashListInsert(a, nb) ==
  /\ tstate = "ready"
  /\ a \notin Keys
  /\ nb \notin Vals
  /\ LET b == RxHashFunction(a) IN
       \/ /\ freepool[b] # HttListInit
          /\ listhead' = [listhead EXCEPT ![b] =
                HttListAddTail(@, [slot |-> Head(freepool[b]), paddr |-> a,
                                   netbuf |-> nb])]
          /\ freepool' = [freepool EXCEPT ![b] = HttListRemove(@, 1)]
          /\ UNCHANGED <<heap, mallocFails>>
       \/ /\ freepool[b] = HttListInit
          /\ listhead' = [listhead EXCEPT ![b] =
                HttListAddTail(@, [slot |-> 0, paddr |-> a, netbuf |-> nb])]
          /\ heap' = heap + 1
          /\ UNCHANGED <<freepool, mallocFails>>
       \/ /\ freepool[b] = HttListInit
          /\ mallocFails < MaxMallocFail
          /\ mallocFails' = mallocFails + 1
          /\ UNCHANGED <<listhead, freepool, heap>>
  /\ UNCHANGED <<tstate, inited, ret, released, recovery, fault>>

(* Mutant: hash_entry->netbuf = NULL is done before netbuf is read.      *)
HashListLookupNullFirst(a) ==
  LET b == RxHashFunction(a)
      i == SelectInSeq(listhead[b], LAMBDA e : e.paddr = a)
      e == listhead[b][i]
  IN
  /\ tstate = "ready"
  /\ i # 0
  /\ ret' = NoBuf
  /\ listhead' = [listhead EXCEPT ![b] = RemoveAt(@, i)]
  /\ \/ /\ e.slot # 0
        /\ freepool' = [freepool EXCEPT ![b] = Append(@, e.slot)]
        /\ UNCHANGED heap
     \/ /\ e.slot = 0
        /\ heap' = heap - 1
        /\ UNCHANGED freepool
  /\ UNCHANGED <<recovery, tstate, inited, released, fault, mallocFails>>

(* Mutant: every removed entry is qdf_mem_free'd, fromlist is ignored.     *)
HashListLookupFreeAll(a) ==
  LET b == RxHashFunction(a)
      i == SelectInSeq(listhead[b], LAMBDA e : e.paddr = a)
      e == listhead[b][i]
  IN
  /\ tstate = "ready"
  /\ i # 0
  /\ ret' = e.netbuf
  /\ listhead' = [listhead EXCEPT ![b] = RemoveAt(@, i)]
  /\ heap' = heap - 1
  /\ UNCHANGED <<freepool, recovery, tstate, inited, released, fault,
                 mallocFails>>

(* htt_rx_hash_list_lookup(paddr): with no table, return NULL.  Otherwise *)
(* the first entry of the bucket with the address is unlinked; a          *)
(* pre-allocated entry goes to the tail of the freepool, a malloc'd one is *)
(* freed.  A miss triggers recovery (cds_trigger_recovery).               *)
HashListLookup(a) ==
  LET b == RxHashFunction(a)
      i == SelectInSeq(listhead[b], LAMBDA e : e.paddr = a)
      e == listhead[b][i]
  IN
  /\ \/ /\ tstate = "detached"
        /\ ret' = NoBuf
        /\ UNCHANGED <<listhead, freepool, heap, recovery>>
     \/ /\ tstate = "ready"
        /\ i = 0
        /\ ret' = NoBuf
        /\ recovery' = TRUE
        /\ UNCHANGED <<listhead, freepool, heap>>
     \/ /\ tstate = "ready"
        /\ i # 0
        /\ ret' = e.netbuf
        /\ listhead' = [listhead EXCEPT ![b] = HttListRemove(@, i)]
        /\ \/ /\ e.slot # 0
              /\ freepool' = [freepool EXCEPT ![b] = HttListAddTail(@, e.slot)]
              /\ UNCHANGED heap
           \/ /\ e.slot = 0
              /\ heap' = heap - 1
              /\ UNCHANGED freepool
        /\ UNCHANGED recovery
  /\ UNCHANGED <<tstate, inited, released, fault, mallocFails>>

-----------------------------------------------------------------------------
(* htt_rx_hash_deinit.  Under rx_hash_lock the table pointer is read and  *)
(* set to NULL; the walk that follows runs without the lock.              *)
HashDeinitDetach ==
  /\ tstate = "ready"
  /\ tstate' = "detached"
  /\ UNCHANGED <<inited, listhead, freepool, heap, ret, released, recovery,
                 fault, mallocFails>>

(* Mutant: the fromlist test is inverted in the walk.                     *)
HashDeinitBucketInverted ==
  /\ tstate = "detached"
  /\ inited # {}
  /\ LET b == CHOOSE x \in inited : \A y \in inited : x <= y
         fromPool == {i \in DOMAIN listhead[b] : listhead[b][i].slot # 0}
     IN /\ released' = released \cup {e.netbuf : e \in ToSet(listhead[b])}
        /\ heap' = heap - Cardinality(fromPool)
        /\ listhead' = [listhead EXCEPT ![b] = <<>>]
        /\ freepool' = [freepool EXCEPT ![b] = <<>>]
        /\ inited' = inited \ {b}
  /\ UNCHANGED <<tstate, ret, recovery, fault, mallocFails>>

(* One bucket of the walk, in index order: every entry on the active list *)
(* has its buffer unmapped and freed; a malloc'd entry is freed; then the *)
(* bucket (with its pre-allocated entries) is freed.                       *)
HashDeinitBucket ==
  /\ tstate = "detached"
  /\ inited # {}
  /\ LET b == CHOOSE x \in inited : \A y \in inited : x <= y
         fromHeap == {i \in DOMAIN listhead[b] : listhead[b][i].slot = 0}
     IN /\ released' = released \cup {e.netbuf : e \in ToSet(listhead[b])}
        /\ heap' = heap - Cardinality(fromHeap)
        /\ listhead' = [listhead EXCEPT ![b] = <<>>]
        /\ freepool' = [freepool EXCEPT ![b] = <<>>]
        /\ inited' = inited \ {b}
  /\ UNCHANGED <<tstate, ret, recovery, fault, mallocFails>>

(* qdf_mem_free(hash_table); qdf_spinlock_destroy(rx_hash_lock).           *)
HashDeinitFree ==
  /\ tstate = "detached"
  /\ inited = {}
  /\ tstate' = "freed"
  /\ UNCHANGED <<inited, listhead, freepool, heap, ret, released, recovery,
                 fault, mallocFails>>

-----------------------------------------------------------------------------
(* The IPA SMMU mappings of the table's buffers.  fill_n maps the buffer   *)
(* it has inserted when its ipa_smmu (read under refill_lock, the lock     *)
(* htt_rx_update_smmu_map sets smmu_map under) holds; a failed insert      *)
(* frees the buffer unmapped.                                              *)
FillSmmuMap(nb) ==
  /\ mapped' = IF IpaSmmu /\ nb \in Vals' THEN mapped \cup {nb} ELSE mapped
  /\ UNCHANGED <<smmuMap, popIpa, deinitIpa, updPc, updMap, smmuFails>>

(* htt_rx_amsdu_rx_in_order_pop_ll reads ipa_smmu once, at its entry,     *)
(* without a lock; every buffer it pops afterwards is unmapped or not      *)
(* according to that value.                                                *)
PopBegin ==
  /\ popIpa' = IpaSmmu
  /\ UNCHANGED <<hvars, smmuMap, mapped, deinitIpa, updPc, updMap, smmuFails>>

(* After htt_rx_in_order_netbuf_pop: if (ipa_smmu) cds_smmu_map_unmap(     *)
(* false, ...) of the popped buffer.                                       *)
PopSmmuUnmap ==
  /\ mapped' = IF popIpa /\ ret' # NoBuf THEN mapped \ {ret'} ELSE mapped
  /\ UNCHANGED <<smmuMap, popIpa, deinitIpa, updPc, updMap, smmuFails>>

(* htt_rx_offload_paddr_msdu_pop_ll, called for each MSDU of an offload  *)
(* deliver indication: the address is popped with                          *)
(* htt_rx_in_order_netbuf_pop (a lookup) and the buffer is DMA-unmapped,  *)
(* with no ipa_smmu test and no cds_smmu_map_unmap.                        *)
OffloadPaddrPop(a) == HashListLookup(a) /\ UNCHANGED svars

(* htt_rx_hash_deinit reads ipa_smmu before it takes rx_hash_lock; its     *)
(* walk unmaps every buffer it releases if that value held.                *)
DeinitSmmuUnmap ==
  /\ mapped' = IF deinitIpa THEN mapped \ released' ELSE mapped
  /\ UNCHANGED <<smmuMap, popIpa, deinitIpa, updPc, updMap, smmuFails>>

(* htt_rx_update_smmu_map(map), first part, without a lock: no table, or   *)
(* no IPA SMMU, returns QDF_STATUS_SUCCESS and changes nothing; otherwise  *)
(* it goes on to take refill_lock.                                         *)
SmmuUpdateCheck(map) ==
  /\ updPc = "idle"
  /\ IpaUcSmmu
  /\ tstate = "ready"
  /\ updPc' = "walk"
  /\ updMap' = map
  /\ UNCHANGED <<hvars, smmuMap, mapped, popIpa, deinitIpa, smmuFails>>

(* The buffers htt_rx_hash_smmu_map visits: buckets in index order, each   *)
(* active list from its head.                                              *)
SmmuWalkOrder ==
  LET bs == SetToSortSeq(Buckets, <)
  IN FlattenSeq([i \in DOMAIN bs |->
                   [j \in DOMAIN listhead[bs[i]] |-> listhead[bs[i]][j].netbuf]])

(* htt_rx_hash_smmu_map(map), under rx_hash_lock: cds_smmu_map_unmap of    *)
(* each buffer in turn; the first failure returns QDF_STATUS_E_FAILURE     *)
(* with the buffers before it done and the rest not.                       *)
HashSmmuMap(map) ==
  LET w == SmmuWalkOrder IN
  \E k \in 0 .. Len(w) :
    /\ k < Len(w) => smmuFails < MaxSmmuFail
    /\ smmuFails' = IF k < Len(w) THEN smmuFails + 1 ELSE smmuFails
    /\ LET done == {w[i] : i \in 1 .. k}
       IN mapped' = IF map THEN mapped \cup done ELSE mapped \ done

(* htt_rx_update_smmu_map, under refill_lock: smmu_map = map, then the     *)
(* walk.  The walk reads hash_table again under rx_hash_lock; if deinit    *)
(* has set it to NULL since the check, hash_table[i] dereferences NULL.    *)
SmmuUpdateWalk ==
  /\ updPc = "walk"
  /\ smmuMap' = updMap
  /\ \/ /\ tstate \in {"detached", "freed"}
        /\ updPc' = "null"
        /\ UNCHANGED <<mapped, smmuFails>>
     \/ /\ tstate = "ready"
        /\ updPc' = "idle"
        /\ HashSmmuMap(updMap)
  /\ UNCHANGED <<hvars, popIpa, deinitIpa, updMap>>

-----------------------------------------------------------------------------
(* htt_rx_attach in full-reorder-offload mode, after htt_rx_hash_init has *)
(* returned 0: target_idx, paddrs_ring and alloc_idx are allocated in     *)
(* turn with qdf_mem_alloc_consistent; a failure jumps to the unwind      *)
(* label that frees what was allocated before it (fail2, fail3, fail4).   *)
hvarsButFails == <<tstate, inited, listhead, freepool, heap, ret, released,
                   recovery, fault>>

Alloc(r, next, unwind) ==
  \/ /\ dmaMem' = dmaMem \cup {r}
     /\ attachPc' = next
     /\ UNCHANGED mallocFails
  \/ /\ mallocFails < MaxMallocFail
     /\ mallocFails' = mallocFails + 1
     /\ attachPc' = unwind
     /\ UNCHANGED dmaMem

(* qdf_mem_free_consistent of the blocks S.                                 *)
FreeDma(S) ==
  /\ dmaMem' = dmaMem \ S
  /\ freedTwice' = (freedTwice \/ ~(S \subseteq dmaMem))

AttachTargetIdx ==
  /\ attachPc = "hash" /\ tstate = "ready"
  /\ Alloc("target_idx", "paddrs", "fail2")
  /\ UNCHANGED <<hvarsButFails, svars, freedTwice>>

AttachPaddrsRing ==
  /\ attachPc = "paddrs"
  /\ Alloc("paddrs_ring", "allocidx", "fail3")
  /\ UNCHANGED <<hvarsButFails, svars, freedTwice>>

(* The last allocation; on success the ring is filled (the inserts) and  *)
(* attach returns 0.                                                        *)
AttachAllocIdx ==
  /\ attachPc = "allocidx"
  /\ Alloc("alloc_idx", "up", "fail4")
  /\ UNCHANGED <<hvarsButFails, svars, freedTwice>>

(* Mutant: fail4 falls through to fail2, skipping fail3's free.          *)
AttachUnwindSkip ==
  /\ \/ attachPc = "fail4" /\ FreeDma({"paddrs_ring"}) /\ attachPc' = "fail2"
     \/ attachPc = "fail3" /\ FreeDma({"target_idx"}) /\ attachPc' = "fail2"
     \/ /\ attachPc = "fail2" /\ tstate = "freed"
        /\ attachPc' = "failed"
        /\ UNCHANGED <<dmaMem, freedTwice>>
  /\ UNCHANGED <<hvars, svars>>

(* fail4: free paddrs_ring; fail3: free target_idx (FRO); fail2:           *)
(* htt_rx_hash_deinit (the deinit actions); fail1: return 1.               *)
AttachUnwind ==
  /\ \/ attachPc = "fail4" /\ FreeDma({"paddrs_ring"}) /\ attachPc' = "fail3"
     \/ attachPc = "fail3" /\ FreeDma({"target_idx"}) /\ attachPc' = "fail2"
     \/ /\ attachPc = "fail2" /\ tstate = "freed"
        /\ attachPc' = "failed"
        /\ UNCHANGED <<dmaMem, freedTwice>>
  /\ UNCHANGED <<hvars, svars>>

(* htt_rx_detach in full-reorder-offload mode: target_idx is freed, then   *)
(* htt_rx_hash_deinit (the deinit actions), then alloc_idx and             *)
(* paddrs_ring.                                                            *)
DetachBegin ==
  /\ attachPc = "up"
  /\ FreeDma({"target_idx"})
  /\ attachPc' = "detach"
  /\ UNCHANGED <<hvars, svars>>

DetachEnd ==
  /\ attachPc = "detach" /\ tstate = "freed"
  /\ FreeDma({"alloc_idx", "paddrs_ring"})
  /\ attachPc' = "gone"
  /\ UNCHANGED <<hvars, svars>>

AttachStep ==
  AttachTargetIdx \/ AttachPaddrsRing \/ AttachAllocIdx \/ AttachUnwind
    \/ DetachBegin \/ DetachEnd

-----------------------------------------------------------------------------
Up == attachPc \in {"up", "detach"}

(* The table operations and who calls them: inserts by fill_n once attach *)
(* has its rings (the caller quiesces refills before detach), pops and    *)
(* htt_rx_update_smmu_map while the pdev is up or being detached, deinit  *)
(* from attach's fail2 or from detach.                                     *)
Next ==
  \/ (HashInitTable \/ HashInitBucket) /\ UNCHANGED <<svars, avars>>
  \/ attachPc = "up" /\ UNCHANGED avars
     /\ \E a \in Addrs, nb \in Bufs : HashListInsert(a, nb) /\ FillSmmuMap(nb)
  \/ Up /\ UNCHANGED avars
     /\ \/ \E a \in Addrs : HashListLookup(a) /\ PopSmmuUnmap
        \/ \E a \in Addrs : OffloadPaddrPop(a)
        \/ \E map \in BOOLEAN : SmmuUpdateCheck(map)
  \/ attachPc \in {"fail2", "detach"} /\ UNCHANGED avars
     /\ HashDeinitDetach /\ deinitIpa' = IpaSmmu
     /\ UNCHANGED <<smmuMap, mapped, popIpa, updPc, updMap, smmuFails>>
  \/ HashDeinitBucket /\ DeinitSmmuUnmap /\ UNCHANGED avars
  \/ HashDeinitFree /\ UNCHANGED <<svars, avars>>
  \/ PopBegin /\ UNCHANGED avars
  \/ SmmuUpdateWalk /\ UNCHANGED avars
  \/ AttachStep

Spec == Init /\ [][Next]_vars

-----------------------------------------------------------------------------
TypeOK ==
  /\ tstate \in {"none", "init", "ready", "detached", "freed", "failed"}
  /\ inited \subseteq Buckets
  /\ listhead \in [Buckets -> Seq(Entry)]
  /\ freepool \in [Buckets -> Seq(Slots)]
  /\ heap \in Nat
  /\ ret \in Bufs \cup {NoBuf}
  /\ released \subseteq Bufs
  /\ recovery \in BOOLEAN
  /\ fault \in BOOLEAN
  /\ mallocFails \in 0 .. MaxMallocFail
  /\ smmuMap \in BOOLEAN /\ popIpa \in BOOLEAN /\ deinitIpa \in BOOLEAN
  /\ mapped \subseteq Bufs
  /\ updPc \in {"idle", "walk", "null"} /\ updMap \in BOOLEAN
  /\ smmuFails \in 0 .. MaxSmmuFail
  /\ attachPc \in {"hash", "paddrs", "allocidx", "up", "fail4", "fail3",
                   "fail2", "failed", "detach", "gone"}
  /\ dmaMem \subseteq {"target_idx", "paddrs_ring", "alloc_idx"}
  /\ freedTwice \in BOOLEAN

(* Every pre-allocated entry of a live bucket is on exactly one of its two *)
(* lists, the active list or the freepool, through any sequence of inserts *)
(* and lookups (the bucket invariant of the hash table's design).          *)
PoolPartition ==
  \A b \in inited, j \in Slots :
    Cardinality({i \in DOMAIN freepool[b] : freepool[b][i] = j})
      + Cardinality({i \in DOMAIN listhead[b] : listhead[b][i].slot = j}) = 1

(* Every entry qdf_mem_malloc'd by an insert is freed exactly once: by the *)
(* lookup that removes it or by deinit's walk; none leaks and none is      *)
(* freed twice, however inserts overflow the freepool and lookups return   *)
(* entries to it.                                                          *)
HeapBalanced ==
  heap = Cardinality({e \in Entries : e.slot = 0})

(* The buckets, freepools and lists implement the address map: the pairs  *)
(* on the active lists are the map, every htt_rx_hash_list_lookup returns  *)
(* the buffer inserted under its address and removes it, a miss happens   *)
(* only for an address not in the table, and deinit releases every buffer  *)
(* still in the table.                                                     *)
AbsState == IF tstate \in {"detached", "freed"} THEN tstate ELSE "ready"

AddrMap == INSTANCE HttRxAddrMap
             WITH amap <- {<<e.paddr, e.netbuf>> : e \in Entries},
                  tstate <- AbsState

RefinesAddrMap == AddrMap!ASpec

(* The table code never dereferences a NULL pointer: htt_rx_hash_init     *)
(* handles a failed bucket allocation by freeing what it allocated and    *)
(* returning 1 (the rollback loop after the NULL test), and               *)
(* htt_rx_update_smmu_map walks a table it has found non-NULL.            *)
NeverDerefsNull == ~fault /\ updPc # "null"

(* htt_rx_attach's unwind labels and htt_rx_detach free each DMA-coherent *)
(* block exactly once: never one that was not allocated, and when attach  *)
(* has returned 1 after its hash table was set up, or detach has          *)
(* finished, none is left allocated and the hash table has been freed,    *)
(* whichever allocation failed and whatever the table held.                *)
ResourcesReleased ==
  /\ ~freedTwice
  /\ attachPc \in {"failed", "gone"} => dmaMem = {} /\ tstate = "freed"

(* With IPA SMMU (s1 and ipa_uc enabled), the buffers with an IPA mapping  *)
(* are exactly the buffers in the table while rx_ring.smmu_map is set,     *)
(* and none while it is clear: fill_n maps what it inserts, a pop unmaps   *)
(* what it removes, htt_rx_update_smmu_map maps or unmaps the whole table  *)
(* and deinit unmaps what it releases.  A buffer that has left the table   *)
(* never keeps a mapping.                                                  *)
SmmuMatchesTable ==
  IpaUcSmmu =>
    /\ mapped \subseteq Vals
    /\ smmuMap /\ tstate = "ready" => Vals \subseteq mapped
    /\ ~smmuMap => mapped = {}

====
