----------------------------- MODULE AmsduPopLL -----------------------------
(***************************************************************************)
(* htt_rx_amsdu_pop_ll, the ordered-mode (non-offload) rx pop: buffers are *)
(* taken from the ring in slot order (htt_rx_netbuf_pop) and linked into   *)
(* the MSDU chain of one MPDU, as the rx descriptor of each buffer says:   *)
(* the MSDU length, whether the length is invalid, how many continuation  *)
(* buffers follow (ring2 more count), whether this MSDU ends the MPDU      *)
(* (last_msdu) and whether the hardware has finished writing it (the done *)
(* bit of the attention word).                                             *)
(*                                                                         *)
(* The ring holds Posted buffers in slots 0 .. Posted-1; the buffer of     *)
(* slot i is named i+1.  A slot beyond them was not posted: its pointer   *)
(* and descriptor are left over from an earlier round.  The descriptors    *)
(* and the build options are inputs chosen in Init.  Lengths are the      *)
(* integers the code computes; a trim is modelled by what                  *)
(* qdf_nbuf_trim_tail does with a negative or oversized size (nothing).   *)
(***************************************************************************)
EXTENDS Integers, Sequences, FiniteSets, FiniteSetsExt

CONSTANTS
  RingLen,        \* rx_ring.size (a power of two)
  Posted,         \* fill_cnt when the pop starts
  BufSize,        \* HTT_RX_BUF_SIZE
  DescSize,       \* RX_STD_DESC_SIZE = HTT_RX_STD_DESC_RESERVATION
  WarLimit,       \* 0x3000 of PEREGRINE_1_0_ZERO_LEN_PHY_ERR_WAR
  NumMsduBytes,   \* num_msdu_bytes: FW rx descriptor bytes in the message
  Chains,         \* ring2 more counts to try
  LensFor(_),     \* msdu_len values to try for a given more count
  Invalids,       \* MPDU_LENGTH_ERR values to try
  DoneStates,     \* done bit of a buffer that is not set on first read:
                  \* "late" (set within the MAX_DONE_BIT_CHECK_ITER
                  \* polls) or "never"
  Builds,         \* [war, dbg, restore]: PEREGRINE_1_0_ZERO_LEN_PHY_ERR_WAR,
                  \* DEBUG_DMA_DONE, HTT_RX_RESTORE
  Honest          \* TRUE: the descriptors describe an MPDU within the posted slots

NULL == 0
Slots == 0 .. RingLen - 1
Bufs == 1 .. RingLen
Cap == BufSize - DescSize

Desc == UNION {[chained : {c}, len : LensFor(c), invalid : Invalids,
                last : BOOLEAN] : c \in Chains}

(* The buffer, if any, whose done bit is not yet set when first read (at   *)
(* most one per call), and how it resolves.                                *)
Unset == {[buf |-> 0, done |-> "set"]} \cup [buf : Bufs, done : DoneStates]

(* qdf_nbuf_trim_tail(buf, size): skb_trim(skb, skb->len - size) with the *)
(* size_t difference truncated to unsigned int; skb_trim only shortens.   *)
TrimTail(len, size) == IF size >= 0 /\ size <= len THEN len - size ELSE len

(* Buffers the MPDU starting at buffer k takes, following the descriptors *)
(* as firmware lays them out; used only to state the Honest assumption.   *)
RECURSIVE MpduEnd(_, _, _)
MpduEnd(d, k, fuel) ==
  IF fuel = 0 \/ k > Posted THEN RingLen + 1
  ELSE IF d[k].last THEN k + d[k].chained
  ELSE MpduEnd(d, k + 1 + d[k].chained, fuel - 1)

VARIABLES
  desc,      \* desc[b]: the rx descriptor of buffer b (input)
  unset,     \* the buffer whose done bit is late or missing (input)
  build,     \* the build options (input)
  pc,        \* "unpack", "trim", "chain", "last", "done", "crash"
  rd,        \* sw_rd_idx.msdu_payld
  fillCnt,   \* rx_ring.fill_cnt
  msdu,      \* the buffer being processed
  first,     \* the first buffer of the current MSDU (whose descriptor counts)
  head, tail,
  nxt,       \* nxt[b]: qdf_nbuf_next(b)
  blen,      \* blen[b]: qdf_nbuf_len(b)
  mlen,      \* msdu_len
  more,      \* msdu_chained, counting down
  chaining,  \* msdu_chaining, the return value
  popped,    \* buffers in the order they were popped
  rxReset,   \* rx_ring.rx_reset (HTT_RX_RESTORE)
  byteIdx,   \* pdev->rx_ind_msdu_byte_idx
  fwDesc     \* fwDesc[b]: fw_desc byte copied from the message, or zeroed

vars == <<desc, unset, build, pc, rd, fillCnt, msdu, first, head, tail, nxt, blen,
          mlen, more, chaining, popped, rxReset, byteIdx, fwDesc>>

(* htt_rx_netbuf_pop: the buffer of slot rd; rd++ & size_mask; fill_cnt--. *)
(* (HTT_ASSERT1 on an empty ring is a debug-level check, taken as off.)    *)
NetbufPop == rd + 1

PopAdvance ==
  /\ rd' = (rd + 1) % RingLen
  /\ fillCnt' = fillCnt - 1
  /\ popped' = Append(popped, NetbufPop)

(* (unsigned int)x > (unsigned int)y for two's-complement ints.          *)
UnsignedGT(x, y) == IF (x < 0) = (y < 0) THEN x > y ELSE x < 0

(* Entry: msdu = *head_msdu = htt_rx_netbuf_pop(pdev).                     *)
Init ==
  /\ desc \in [1 .. Posted -> Desc]
  /\ Honest => MpduEnd(desc, 1, RingLen) <= Posted
  /\ unset \in Unset
  /\ build \in Builds
  /\ pc = "unpack"
  /\ rd = 1 % RingLen
  /\ fillCnt = Posted - 1
  /\ msdu = 1 /\ first = 1 /\ head = 1 /\ tail = NULL
  /\ nxt = [b \in Bufs |-> NULL]
  /\ blen = [b \in Bufs |-> 0]
  /\ mlen = 0 /\ more = 0 /\ chaining = 0
  /\ popped = <<1>>
  /\ rxReset = FALSE
  /\ byteIdx = 0
  /\ fwDesc = [b \in Bufs |-> "none"]

-----------------------------------------------------------------------------
(* The descriptor that governs the current MSDU: the loop reads rx_desc of *)
(* its first buffer only, continuation buffers have none of their own.    *)
D == desc[first]

(* The done bit as the code finally sees it: set, or set during the poll  *)
(* loop of a DEBUG_DMA_DONE build.                                         *)
DoneBit == IF unset.buf = msdu THEN unset.done ELSE "set"

DoneSeen == DoneBit = "set" \/ (build.dbg /\ DoneBit = "late")

(* The FW rx descriptor byte: copied from the message while              *)
(* rx_ind_msdu_byte_idx < num_msdu_bytes (and the index advanced), else    *)
(* zeroed so the MSDU is still delivered.                                  *)
FwDescCopyUnchecked ==
  /\ byteIdx' = byteIdx + 1
  /\ fwDesc' = [fwDesc EXCEPT ![msdu] =
                  IF byteIdx < NumMsduBytes THEN "msg" ELSE "zero"]

FwDescCopy ==
  /\ byteIdx' = IF byteIdx < NumMsduBytes THEN byteIdx + 1 ELSE byteIdx
  /\ fwDesc' = [fwDesc EXCEPT ![msdu] =
                  IF byteIdx < NumMsduBytes THEN "msg" ELSE "zero"]

(* HTT_RX_RESTORE return for a done bit that never came: the chain ends   *)
(* at this buffer, rx_reset = 1, return msdu_chaining.                    *)
RxRestoreReturnNoTail ==
  /\ nxt' = [nxt EXCEPT ![msdu] = NULL]
  /\ rxReset' = TRUE
  /\ pc' = "done"
  /\ UNCHANGED tail

RxRestoreReturn ==
  /\ nxt' = [nxt EXCEPT ![msdu] = NULL]
  /\ tail' = msdu
  /\ rxReset' = TRUE
  /\ pc' = "done"

(* Top of the loop for the first buffer of an MSDU: set_pktlen(BUF_SIZE),  *)
(* unmap, pull_head(RESERVATION); the done-bit check; the FW descriptor    *)
(* byte (from the message while byte_idx < num_msdu_bytes, else 0); the   *)
(* length fields; and the trim of a non-chained valid MSDU to its length,  *)
(* skipped in the 0x3000 workaround build for a larger length.            *)
MsduUnpack ==
  /\ pc = "unpack"
  /\ \/ /\ DoneSeen
        /\ LET single == ~D.invalid /\ D.chained = 0
               skip   == build.war /\ D.len > WarLimit
               size   == BufSize - (DescSize + D.len)
           IN /\ blen' = [blen EXCEPT ![msdu] =
                            IF single /\ ~skip THEN TrimTail(Cap, size) ELSE Cap]
        /\ FwDescCopy
        /\ mlen' = D.len
        /\ more' = D.chained
        /\ pc' = IF D.chained > 0 THEN "chain" ELSE "last"
        /\ UNCHANGED <<tail, nxt, rxReset>>
     \/ /\ ~DoneSeen
        /\ build.dbg /\ build.restore
        /\ blen' = [blen EXCEPT ![msdu] = Cap]
        /\ RxRestoreReturn
        /\ UNCHANGED <<mlen, more, byteIdx, fwDesc>>
     \/ /\ ~DoneSeen
        /\ ~(build.dbg /\ build.restore)
        /\ blen' = [blen EXCEPT ![msdu] = Cap]
        /\ pc' = "crash"
        /\ UNCHANGED <<tail, nxt, rxReset, mlen, more, byteIdx, fwDesc>>
  /\ UNCHANGED <<desc, unset, build, rd, fillCnt, msdu, first, head, chaining,
                 popped>>

(* Clamp of the last continuation's length: (unsigned)msdu_len greater     *)
(* than BUF_SIZE - DESC_SIZE becomes BUF_SIZE - DESC_SIZE.                *)
Clamp(l) == IF UnsignedGT(l, Cap) THEN Cap ELSE l

(* msdu_len -= HTT_RX_BUF_SIZE for each continuation buffer.             *)
ResidualUnchanged(l) == l
Residual(l) == l - BufSize

(* Mutant: msdu_chaining = 1 is missing from the continuation loop.     *)
ChainPopNoFlag ==
  /\ pc = "chain"
  /\ LET next == NetbufPop
         ml   == Residual(mlen)
         last == more - 1 = 0
         size == BufSize - (DescSize + Clamp(ml))
     IN /\ PopAdvance
        /\ mlen' = IF last THEN Clamp(ml) ELSE ml
        /\ more' = more - 1
        /\ nxt' = [nxt EXCEPT ![msdu] = next]
        /\ msdu' = next
        /\ blen' = [blen EXCEPT ![next] =
                      IF last THEN TrimTail(BufSize, size) ELSE BufSize]
        /\ pc' = IF last THEN "last" ELSE "chain"
  /\ UNCHANGED <<desc, unset, build, first, head, tail, rxReset, byteIdx, fwDesc,
                 chaining>>

(* One iteration of while (msdu_chained--): pop the continuation buffer,   *)
(* set_pktlen(BUF_SIZE), msdu_len -= BUF_SIZE, link it, msdu_chaining = 1; *)
(* the last continuation is trimmed to the clamped residual length.       *)
ChainPop ==
  /\ pc = "chain"
  /\ LET next == NetbufPop
         ml   == Residual(mlen)
         last == more - 1 = 0
         size == BufSize - (DescSize + Clamp(ml))
     IN /\ PopAdvance
        /\ mlen' = IF last THEN Clamp(ml) ELSE ml
        /\ more' = more - 1
        /\ nxt' = [nxt EXCEPT ![msdu] = next]
        /\ msdu' = next
        /\ blen' = [blen EXCEPT ![next] =
                      IF last THEN TrimTail(BufSize, size) ELSE BufSize]
        /\ chaining' = 1
        /\ pc' = IF last THEN "last" ELSE "chain"
  /\ UNCHANGED <<desc, unset, build, first, head, tail, rxReset, byteIdx, fwDesc>>

(* End of the loop body: with last_msdu set the chain ends here           *)
(* (set_next(msdu, NULL), *tail_msdu = msdu); otherwise the next buffer is *)
(* popped, linked and becomes the first buffer of the next MSDU.          *)
MsduLast ==
  /\ pc = "last"
  /\ \/ /\ D.last
        /\ nxt' = [nxt EXCEPT ![msdu] = NULL]
        /\ tail' = msdu
        /\ pc' = "done"
        /\ UNCHANGED <<rd, fillCnt, popped, msdu, first>>
     \/ /\ ~D.last
        /\ PopAdvance
        /\ nxt' = [nxt EXCEPT ![msdu] = NetbufPop]
        /\ msdu' = NetbufPop
        /\ first' = NetbufPop
        /\ pc' = "unpack"
        /\ UNCHANGED tail
  /\ UNCHANGED <<desc, unset, build, head, blen, mlen, more, chaining, rxReset,
                 byteIdx, fwDesc>>

Next == MsduUnpack \/ ChainPop \/ MsduLast

Spec == Init /\ [][Next]_vars

-----------------------------------------------------------------------------
(* The list from x following qdf_nbuf_next, at most k buffers long.        *)
RECURSIVE ChainFrom(_, _)
ChainFrom(x, k) ==
  IF x = NULL \/ k = 0 THEN <<>> ELSE <<x>> \o ChainFrom(nxt[x], k - 1)

Chain == ChainFrom(head, RingLen + 1)

(* First buffers of the MSDUs of the MPDU at buffer k, as laid out by the  *)
(* descriptors.                                                            *)
RECURSIVE MsduStarts(_, _)
MsduStarts(k, fuel) ==
  IF fuel = 0 \/ k > Posted THEN {}
  ELSE {k} \cup (IF desc[k].last THEN {}
                 ELSE MsduStarts(k + 1 + desc[k].chained, fuel - 1))

Starts == MsduStarts(1, Posted)

(* Payload bytes delivered for the MSDU starting at s: the lengths of its  *)
(* first buffer and of its continuation buffers.                           *)
Delivered(s) ==
  LET bs == s .. s + desc[s].chained
  IN  MapThenSumSet(LAMBDA b : blen[b], bs)

(* The declared length fits the MSDU's buffers: a single buffer holds up   *)
(* to BUF_SIZE - DESC_SIZE; c continuations carry the rest, the last one  *)
(* holding at most BUF_SIZE - DESC_SIZE of the residual.                  *)
Fits(d) ==
  IF d.chained = 0 THEN ~d.invalid /\ d.len <= Cap
  ELSE d.len \in d.chained * BufSize .. d.chained * BufSize + Cap

Capacity(d) == Cap + d.chained * BufSize

TypeOK ==
  /\ pc \in {"unpack", "chain", "last", "done", "crash"}
  /\ rd \in Slots
  /\ fillCnt \in -RingLen .. Posted
  /\ {msdu, first, head, tail} \subseteq 0 .. RingLen
  /\ nxt \in [Bufs -> 0 .. RingLen]
  /\ \A b \in Bufs : blen[b] \in 0 .. BufSize
  /\ chaining \in {0, 1}
  /\ byteIdx \in 0 .. NumMsduBytes
  /\ fwDesc \in [Bufs -> {"none", "msg", "zero"}]

(* When the call returns, *head_msdu .. *tail_msdu links every buffer it  *)
(* popped, in ring order, and ends in a NULL next pointer: on a normal    *)
(* return and on the HTT_RX_RESTORE return for a done bit that never came. *)
(* On a normal return msdu_chaining says whether some MSDU was chained.   *)
ChainWellFormed ==
  pc = "done" =>
    /\ Chain = popped
    /\ tail = popped[Len(popped)]
    /\ nxt[tail] = NULL
    /\ ~rxReset => (chaining = 1 <=> \E s \in Starts : desc[s].chained > 0)

(* On a normal return, every MSDU whose declared length fits its buffers  *)
(* is delivered with exactly that length, whether it spans one buffer or  *)
(* several; an MSDU whose length does not fit (overflow, underflow, the   *)
(* zero-length PHY error) is delivered with at most the bytes its buffers *)
(* hold.                                                                   *)
MsduLengths ==
  (pc = "done" /\ ~rxReset) =>
    \A s \in Starts :
      /\ Fits(desc[s]) => Delivered(s) = desc[s].len
      /\ Delivered(s) \in 0 .. Capacity(desc[s])

====
