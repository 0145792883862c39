---------------------------- MODULE HttRxAmsduPop ----------------------------
(***************************************************************************)
(* htt_rx_amsdu_pop, the function pointer htt_rx_attach programs from     *)
(* cfg.is_full_reorder_offload: htt_rx_amsdu_rx_in_order_pop_ll when the  *)
(* target reorders (InOrderPop), htt_rx_amsdu_pop_ll otherwise             *)
(* (AmsduPopLL).  One attach picks one of them for the life of the pdev,  *)
(* so a behaviour is a call of the one that was picked; the variables of  *)
(* the other stay at a fixed value.                                        *)
(***************************************************************************)
EXTENDS AmsduPopLL

CONSTANT MaxCount

VARIABLES
  fullReorderOffload,   \* pdev->cfg.is_full_reorder_offload at attach
  \* htt_rx_amsdu_rx_in_order_pop_ll (htt_rx_amsdu_pop_ll's are AmsduPopLL's)
  count, offload, micErr, popOk, ioPc, left, ioMsdu, prev, ioHead, ioTail,
  ioNxt, ioPopped, freed, ret

IO == INSTANCE InOrderPop
        WITH pc <- ioPc, msdu <- ioMsdu, head <- ioHead, tail <- ioTail,
             nxt <- ioNxt, popped <- ioPopped

ioVars == <<count, offload, micErr, popOk, ioPc, left, ioMsdu, prev, ioHead,
            ioTail, ioNxt, ioPopped, freed, ret>>
popVars == <<fullReorderOffload, ioVars, vars>>

(* The state of the pop that attach did not pick: its entry state for one *)
(* fixed message, never stepped.                                           *)
IoUnused ==
  /\ count = 1 /\ offload = TRUE
  /\ micErr = [i \in IO!Recs |-> FALSE] /\ popOk = [i \in IO!Recs |-> TRUE]
  /\ IO!Init

LlUnused ==
  /\ desc = CHOOSE d \in [1 .. Posted -> Desc] :
              Honest => MpduEnd(d, 1, RingLen) <= Posted
  /\ unset = [buf |-> 0, done |-> "set"]
  /\ build = CHOOSE b \in Builds : TRUE
  /\ Init

(* htt_rx_attach: if (pdev->cfg.is_full_reorder_offload) htt_rx_amsdu_pop *)
(* = htt_rx_amsdu_rx_in_order_pop_ll; else htt_rx_amsdu_pop_ll.            *)
PopInit ==
  \/ fullReorderOffload = TRUE /\ IO!Init /\ LlUnused
  \/ fullReorderOffload = FALSE /\ IoUnused /\ Init

(* A call through htt_rx_amsdu_pop runs the function attach programmed.   *)
PopNext ==
  \/ fullReorderOffload /\ IO!Next /\ UNCHANGED <<fullReorderOffload, vars>>
  \/ ~fullReorderOffload /\ Next /\ UNCHANGED <<fullReorderOffload, ioVars>>

PopSpec == PopInit /\ [][PopNext]_popVars

-----------------------------------------------------------------------------
PopTypeOK == fullReorderOffload \in BOOLEAN /\ IO!TypeOK /\ TypeOK

(* The pop that was not picked stays in an entry state, where the         *)
(* properties of both pops hold; AmsduPopLL's ChainWellFormed and        *)
(* MsduLengths are checked as they are, and InOrderPop's property         *)
(* (stated and explained there) through IO.                                *)
ChainMatchesIndication == IO!ChainMatchesIndication

====
