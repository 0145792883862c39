----------------------------- MODULE InOrderPop -----------------------------
(***************************************************************************)
(* htt_rx_amsdu_rx_in_order_pop_ll: one HTT_RX_IN_ORD_PADDR_IND message    *)
(* is walked record by record; the buffer of each record is popped from    *)
(* the hash table by address (htt_rx_in_order_netbuf_pop), unmapped and     *)
(* trimmed, and linked after the previous one.  An MSDU with a MIC error   *)
(* and no discard flag is handed to the MIC error handler, freed and       *)
(* spliced out.  A failed pop ends the call with return value 0.           *)
(*                                                                         *)
(* The message is an input chosen in Init: its MSDU count, the offload     *)
(* flag, which records carry a MIC error, and which pops fail.  The buffer *)
(* of record i is named i; 0 is NULL.  The call is sequential (it runs in  *)
(* one rx context), so the steps are the loop's iterations.               *)
(***************************************************************************)
EXTENDS Integers, Sequences, FiniteSets

CONSTANTS
  MaxCount   \* bound on msdu_count (HTT_RX_CHECK_MSDU_COUNT)

NULL == 0
Recs == 1 .. MaxCount

VARIABLES
  count,     \* msdu_count of the message
  offload,   \* HTT_RX_IN_ORD_PADDR_IND_OFFLOAD
  micErr,    \* micErr[i]: RX_DESC_MIC_ERR_IS_SET && !RX_DESC_DISCARD_IS_SET
  popOk,     \* popOk[i]: the hash lookup of record i's address succeeds
  pc,        \* "start", "msdu", "link", "done"
  left,      \* msdu_count as the loop decrements it
  msdu, prev, head, tail,
  nxt,       \* nxt[i]: qdf_nbuf_next of buffer i (NULL if never set)
  popped,    \* buffers popped from the hash table
  freed,     \* buffers freed by htt_rx_desc_frame_free
  ret

vars == <<count, offload, micErr, popOk, pc, left, msdu, prev, head, tail, nxt,
          popped, freed, ret>>

(* Record index of the next pop: the records are walked in order.         *)
NextRec == count - left + 1

Init ==
  /\ count \in Recs
  /\ offload \in BOOLEAN
  /\ micErr \in [Recs -> BOOLEAN]
  /\ popOk \in [Recs -> BOOLEAN]
  /\ pc = "start"
  /\ left = count
  /\ msdu = NULL /\ prev = NULL /\ head = NULL /\ tail = NULL
  /\ nxt = [i \in Recs |-> NULL]
  /\ popped = {}
  /\ freed = {}
  /\ ret = 1

Input == <<count, offload, micErr, popOk>>

(* Return with ret 0: *tail_msdu = NULL, pop_fail_cnt++, goto end.        *)
PopFailed ==
  /\ tail' = NULL
  /\ ret' = 0
  /\ pc' = "done"

(* Message header: msdu_count, offload flag.  An offload indication is   *)
(* handed to ol_rx_offload_paddr_deliver_ind_handler and returns 0 with    *)
(* no chain; otherwise the first buffer is popped into *head_msdu.        *)
PopFirst ==
  /\ pc = "start"
  /\ \/ /\ offload
        /\ ret' = 0
        /\ pc' = "done"
        /\ UNCHANGED <<msdu, head, tail, popped>>
     \/ /\ ~offload
        /\ popOk[1]
        /\ head' = 1
        /\ msdu' = 1
        /\ popped' = {1}
        /\ pc' = "msdu"
        /\ UNCHANGED <<tail, ret>>
     \/ /\ ~offload
        /\ ~popOk[1]
        /\ head' = NULL
        /\ PopFailed
        /\ UNCHANGED <<msdu, popped>>
  /\ UNCHANGED <<Input, left, prev, nxt, freed>>

(* Mutant: the buffer freed is prev, not msdu.                           *)
MsduMicErrorFreesPrev ==
  /\ pc = "msdu"
  /\ micErr[msdu]
  /\ left' = left - 1
  /\ freed' = freed \cup {prev}
  /\ \/ /\ left' = 0
        /\ prev = NULL
        /\ head' = NULL
        /\ tail' = NULL
        /\ ret' = 0
        /\ pc' = "done"
        /\ UNCHANGED <<msdu, nxt, popped>>
     \/ /\ left' = 0
        /\ prev # NULL
        /\ tail' = prev
        /\ nxt' = [nxt EXCEPT ![prev] = NULL]
        /\ pc' = "done"
        /\ UNCHANGED <<msdu, head, ret, popped>>
     \/ /\ left' # 0
        /\ ~popOk[msdu + 1]
        /\ PopFailed
        /\ UNCHANGED <<msdu, head, nxt, popped>>
     \/ /\ left' # 0
        /\ popOk[msdu + 1]
        /\ popped' = popped \cup {msdu + 1}
        /\ \/ /\ prev # NULL
              /\ nxt' = [nxt EXCEPT ![prev] = msdu + 1]
              /\ UNCHANGED head
           \/ /\ prev = NULL
              /\ head' = msdu + 1
              /\ UNCHANGED nxt
        /\ msdu' = msdu + 1
        /\ UNCHANGED <<tail, ret, pc>>
  /\ UNCHANGED <<Input, prev>>

(* Mutant: qdf_nbuf_set_next(prev, next) is missing from the splice.     *)
MsduMicErrorNoRelink ==
  /\ pc = "msdu"
  /\ micErr[msdu]
  /\ left' = left - 1
  /\ freed' = freed \cup {msdu}
  /\ \/ /\ left' = 0
        /\ prev = NULL
        /\ head' = NULL
        /\ tail' = NULL
        /\ ret' = 0
        /\ pc' = "done"
        /\ UNCHANGED <<msdu, nxt, popped>>
     \/ /\ left' = 0
        /\ prev # NULL
        /\ tail' = prev
        /\ nxt' = [nxt EXCEPT ![prev] = NULL]
        /\ pc' = "done"
        /\ UNCHANGED <<msdu, head, ret, popped>>
     \/ /\ left' # 0
        /\ ~popOk[msdu + 1]
        /\ PopFailed
        /\ UNCHANGED <<msdu, head, nxt, popped>>
     \/ /\ left' # 0
        /\ popOk[msdu + 1]
        /\ popped' = popped \cup {msdu + 1}
        /\ \/ /\ prev # NULL
              /\ UNCHANGED <<head, nxt>>
           \/ /\ prev = NULL
              /\ head' = msdu + 1
              /\ UNCHANGED nxt
        /\ msdu' = msdu + 1
        /\ UNCHANGED <<tail, ret, pc>>
  /\ UNCHANGED <<Input, prev>>

(* One loop iteration for an MSDU with a MIC error: msdu_count--, the MIC  *)
(* error handler, htt_rx_desc_frame_free.  If it was the last MSDU, the    *)
(* chain ends at prev (or is empty, returning 0, if there is no prev).     *)
(* Otherwise the next buffer is popped and linked in its place: after prev *)
(* or, with no prev, as the new *head_msdu.                                *)
MsduMicError ==
  /\ pc = "msdu"
  /\ micErr[msdu]
  /\ left' = left - 1
  /\ freed' = freed \cup {msdu}
  /\ \/ /\ left' = 0
        /\ prev = NULL
        /\ head' = NULL
        /\ tail' = NULL
        /\ ret' = 0
        /\ pc' = "done"
        /\ UNCHANGED <<msdu, nxt, popped>>
     \/ /\ left' = 0
        /\ prev # NULL
        /\ tail' = prev
        /\ nxt' = [nxt EXCEPT ![prev] = NULL]
        /\ pc' = "done"
        /\ UNCHANGED <<msdu, head, ret, popped>>
     \/ /\ left' # 0
        /\ ~popOk[msdu + 1]
        /\ PopFailed
        /\ UNCHANGED <<msdu, head, nxt, popped>>
     \/ /\ left' # 0
        /\ popOk[msdu + 1]
        /\ popped' = popped \cup {msdu + 1}
        /\ \/ /\ prev # NULL
              /\ nxt' = [nxt EXCEPT ![prev] = msdu + 1]
              /\ UNCHANGED head
           \/ /\ prev = NULL
              /\ head' = msdu + 1
              /\ UNCHANGED nxt
        /\ msdu' = msdu + 1
        /\ UNCHANGED <<tail, ret, pc>>
  /\ UNCHANGED <<Input, prev>>

(* One loop iteration for a good MSDU: msdu_count--, checksum; if more     *)
(* MSDUs follow, the next buffer is popped and linked after this one;     *)
(* otherwise this one is the tail.                                         *)
MsduDeliver ==
  /\ pc = "msdu"
  /\ ~micErr[msdu]
  /\ left' = left - 1
  /\ \/ /\ left' # 0
        /\ ~popOk[msdu + 1]
        /\ PopFailed
        /\ UNCHANGED <<msdu, prev, nxt, popped>>
     \/ /\ left' # 0
        /\ popOk[msdu + 1]
        /\ popped' = popped \cup {msdu + 1}
        /\ nxt' = [nxt EXCEPT ![msdu] = msdu + 1]
        /\ prev' = msdu
        /\ msdu' = msdu + 1
        /\ UNCHANGED <<tail, ret, pc>>
     \/ /\ left' = 0
        /\ tail' = msdu
        /\ nxt' = [nxt EXCEPT ![msdu] = NULL]
        /\ pc' = "done"
        /\ UNCHANGED <<msdu, prev, ret, popped>>
  /\ UNCHANGED <<Input, head, freed>>

Next == PopFirst \/ MsduMicError \/ MsduDeliver

Spec == Init /\ [][Next]_vars

-----------------------------------------------------------------------------
(* The list from x following qdf_nbuf_next, at most k buffers long.        *)
RECURSIVE ChainFrom(_, _)
ChainFrom(x, k) ==
  IF x = NULL \/ k = 0 THEN <<>> ELSE <<x>> \o ChainFrom(nxt[x], k - 1)

Chain == ChainFrom(head, MaxCount + 1)

(* The chain the message describes: its records in order, without those  *)
(* with a MIC error.                                                       *)
Expected == SelectSeq([i \in 1 .. count |-> i], LAMBDA i : ~micErr[i])

TypeOK ==
  /\ count \in Recs /\ offload \in BOOLEAN
  /\ micErr \in [Recs -> BOOLEAN] /\ popOk \in [Recs -> BOOLEAN]
  /\ pc \in {"start", "msdu", "done"}
  /\ left \in 0 .. MaxCount
  /\ {msdu, prev, head, tail} \subseteq 0 .. MaxCount
  /\ nxt \in [Recs -> 0 .. MaxCount]
  /\ popped \subseteq Recs /\ freed \subseteq popped
  /\ ret \in {0, 1}

(* When the call returns 1, *head_msdu .. *tail_msdu is exactly the       *)
(* message's MSDUs without the MIC-error ones, in record order, ending in *)
(* a NULL next pointer; every buffer popped is on that chain or freed,    *)
(* never both.  This is what the splice of the MIC-error path must keep   *)
(* true wherever in the message (first, middle, last, several in a row)   *)
(* the MIC errors fall.                                                    *)
ChainMatchesIndication ==
  (pc = "done" /\ ret = 1) =>
    /\ Chain = Expected
    /\ Chain # <<>>
    /\ tail = Chain[Len(Chain)]
    /\ nxt[tail] = NULL
    /\ popped = {Chain[i] : i \in DOMAIN Chain} \cup freed
    /\ \A i \in DOMAIN Chain : Chain[i] \notin freed

(* Whatever the call returns, *head_msdu is NULL or a buffer that has not *)
(* been freed: the sole-MSDU MIC path sets it to NULL for this reason.    *)
HeadNeverFreed ==
  pc = "done" => head = NULL \/ head \notin freed

====
