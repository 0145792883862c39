------------------------------ MODULE EppingTx ------------------------------
(***************************************************************************)
(* The transmit side of the endpoint-ping test path (epping_tx.c).         *)
(*                                                                         *)
(* Three contexts run concurrently and share the nodrop queue, the cookie *)
(* pool and the timer state:                                               *)
(*   - the tx path, epping_tx_send (one at a time: the netdev xmit lock);  *)
(*   - the retry timer's callback, epping_tx_timer_expire (softirq);       *)
(*   - HTC's completion callback, epping_tx_complete_multiple;            *)
(* and the rx path sends echo copies with epping_tx_dup_pkt.  The nodrop   *)
(* queue is used without a lock by the tx path and the callback; each of   *)
(* its operations (cdf_nbuf_queue_*, outside src/) is one step here, so   *)
(* the model says nothing about the data race between them.  data_lock     *)
(* covers only the timer state test-and-set, which is one step.  A packet  *)
(* is a model value; its kind (nodrop, droppable, not an epping packet,   *)
(* unmapped access class) and whether the endpoint of its class is        *)
(* connected are inputs.                                                   *)
(***************************************************************************)
EXTENDS Integers, Sequences, FiniteSets

CONSTANTS
  Pkts,          \* skbs the network stack hands to epping_tx_send
  Dups,          \* skb copies made by epping_tx_dup_pkt
  NumCookies,    \* size of the epping cookie pool
  MaxSendFail,   \* bound on htc_send_pkt refusals
  Kinds,         \* packet kinds to try
  EidOks,        \* whether EppingEndpoint[ac] is a valid endpoint
  NULL

VARIABLES
  kind,          \* kind[p] (input)
  eidOk,         \* eid of the stream is in range (input)
  pending,       \* skbs the stack has not handed over yet
  nodrop,        \* pAdapter->nodrop_queue
  tstate,        \* epping_timer_state: "stopped" or "running"
  armed,         \* epping_timer is pending in the kernel
  cookies,       \* free cookies in the pool
  htc,           \* skbs HTC holds (each with its cookie)
  done,          \* skbs freed by the completion callback
  dropped,       \* skbs freed by the tx path
  netifStopped,  \* netif_stop_queue without a later netif_wake_queue
  sendFails,     \* htc_send_pkt refusals so far
  txPc, txPkt, txHold,  \* tx path: pc, the skb being sent, a nodrop skb
  tmPc, tmHold,         \* timer callback: pc, a nodrop skb
  dupsLeft       \* copies epping_tx_dup_pkt has not made yet

vars == <<kind, eidOk, pending, nodrop, tstate, armed, cookies, htc, done,
          dropped, netifStopped, sendFails, txPc, txPkt, txHold, tmPc, tmHold,
          dupsLeft>>

Init ==
  /\ kind \in [Pkts -> Kinds]
  /\ eidOk \in EidOks
  /\ pending = Pkts
  /\ nodrop = <<>>
  /\ tstate = "stopped"
  /\ armed = FALSE
  /\ cookies = NumCookies
  /\ htc = {}
  /\ done = {} /\ dropped = {}
  /\ netifStopped = FALSE
  /\ sendFails = 0
  /\ txPc = "idle" /\ txPkt = NULL /\ txHold = NULL
  /\ tmPc = "idle" /\ tmHold = NULL
  /\ dupsLeft = Dups

-----------------------------------------------------------------------------
(* htc_send_pkt: HTC takes the packet with its cookie, or refuses it.      *)
HtcAccept(x) == htc' = htc \cup {x}

HtcRefuse ==
  /\ sendFails < MaxSendFail
  /\ sendFails' = sendFails + 1

(* Mutant: the cookie pool is not checked for an empty pool.             *)
SendIntOkNoCheck(x) ==
  /\ eidOk
  /\ cookies' = cookies - 1
  /\ HtcAccept(x)
  /\ UNCHANGED sendFails

(* epping_tx_send_int(skb) returning 0: a cookie, a valid endpoint, and   *)
(* HTC takes the packet.                                                   *)
SendIntOk(x) ==
  /\ cookies > 0
  /\ eidOk
  /\ cookies' = cookies - 1
  /\ HtcAccept(x)
  /\ UNCHANGED sendFails

(* epping_tx_send_int(skb) returning -1: no cookie; an invalid eid, which *)
(* returns without freeing the cookie it took; or HTC refuses, and the    *)
(* cookie is freed.                                                        *)
SendIntFail ==
  /\ \/ /\ cookies = 0
        /\ UNCHANGED <<cookies, sendFails>>
     \/ /\ cookies > 0
        /\ ~eidOk
        /\ cookies' = cookies - 1
        /\ UNCHANGED sendFails
     \/ /\ cookies > 0
        /\ eidOk
        /\ HtcRefuse
        /\ UNCHANGED cookies
  /\ UNCHANGED htc

(* The timer state test-and-set under data_lock: if the state is not      *)
(* RUNNING, set it and qdf_timer_mod the timer.                            *)
ArmIfNotRunning ==
  IF tstate # "running"
  THEN tstate' = "running" /\ armed' = TRUE
  ELSE UNCHANGED <<tstate, armed>>

-----------------------------------------------------------------------------
(* epping_tx_send, entry: a packet that is not an epping packet, or whose  *)
(* stream is not access class 0 or 1, is freed; otherwise the nodrop     *)
(* queue is flushed first.  The stack calls it only while the netif queue *)
(* is awake.                                                               *)
TxStart(p) ==
  /\ txPc = "idle"
  /\ ~netifStopped
  /\ p \in pending
  /\ pending' = pending \ {p}
  /\ \/ /\ kind[p] \in {"non_epping", "bad_ac"}
        /\ dropped' = dropped \cup {p}
        /\ UNCHANGED <<txPc, txPkt>>
     \/ /\ kind[p] \in {"nodrop", "drop"}
        /\ txPkt' = p
        /\ txPc' = "flush"
        /\ UNCHANGED dropped
  /\ UNCHANGED <<kind, eidOk, nodrop, tstate, armed, cookies, htc, done,
                 netifStopped, sendFails, txHold, tmPc, tmHold, dupsLeft>>

(* while ((nodrop_skb = cdf_nbuf_queue_remove(&nodrop_queue))): take the  *)
(* head, or, with the queue empty, go on to send the original packet.     *)
TxRemove ==
  /\ txPc = "flush"
  /\ \/ /\ nodrop = <<>>
        /\ txPc' = "orig"
        /\ UNCHANGED <<nodrop, txHold>>
     \/ /\ nodrop # <<>>
        /\ txHold' = Head(nodrop)
        /\ nodrop' = Tail(nodrop)
        /\ txPc' = "sendq"
  /\ UNCHANGED <<kind, eidOk, pending, tstate, armed, cookies, htc, done,
                 dropped, netifStopped, sendFails, txPkt, tmPc, tmHold,
                 dupsLeft>>

(* Send the removed nodrop skb; on failure put it back at the head and    *)
(* goto tx_fail.                                                           *)
TxSendQueued ==
  /\ txPc = "sendq"
  /\ \/ /\ SendIntOk(txHold)
        /\ txPc' = "flush"
        /\ UNCHANGED nodrop
     \/ /\ SendIntFail
        /\ nodrop' = <<txHold>> \o nodrop
        /\ txPc' = "fail"
  /\ txHold' = NULL
  /\ UNCHANGED <<kind, eidOk, pending, tstate, armed, done, dropped,
                 netifStopped, txPkt, tmPc, tmHold, dupsLeft>>

(* Send the original packet; return 0, or goto tx_fail.                    *)
TxSendOrig ==
  /\ txPc = "orig"
  /\ \/ /\ SendIntOk(txPkt)
        /\ txPkt' = NULL
        /\ txPc' = "idle"
     \/ /\ SendIntFail
        /\ txPc' = "fail"
        /\ UNCHANGED txPkt
  /\ UNCHANGED <<kind, eidOk, pending, nodrop, tstate, armed, done, dropped,
                 netifStopped, txHold, tmPc, tmHold, dupsLeft>>

(* tx_fail: a droppable packet is freed; a nodrop packet is added to the  *)
(* nodrop queue and the retry timer armed unless the state says RUNNING.  *)
TxFail ==
  /\ txPc = "fail"
  /\ \/ /\ kind[txPkt] # "nodrop"
        /\ dropped' = dropped \cup {txPkt}
        /\ UNCHANGED <<nodrop, tstate, armed>>
     \/ /\ kind[txPkt] = "nodrop"
        /\ nodrop' = Append(nodrop, txPkt)
        /\ ArmIfNotRunning
        /\ UNCHANGED dropped
  /\ txPkt' = NULL
  /\ txPc' = "idle"
  /\ UNCHANGED <<kind, eidOk, pending, cookies, htc, done, netifStopped,
                 sendFails, txHold, tmPc, tmHold, dupsLeft>>

-----------------------------------------------------------------------------
TmVars == <<tmPc, tmHold>>

(* The kernel runs an armed timer's callback (never two at once).          *)
TimerFire ==
  /\ armed
  /\ tmPc = "idle"
  /\ armed' = FALSE
  /\ tmPc' = "check"
  /\ UNCHANGED <<kind, eidOk, pending, nodrop, tstate, cookies, htc, done,
                 dropped, netifStopped, sendFails, txPc, txPkt, txHold, tmHold,
                 dupsLeft>>

(* epping_tx_timer_expire: the queue length is read; an empty queue leads *)
(* to the unlocked write of STOPPED (a separate step) and return.          *)
TmCheck ==
  /\ tmPc = "check"
  /\ tmPc' = IF nodrop = <<>> THEN "stop" ELSE "flush"
  /\ UNCHANGED <<kind, eidOk, pending, nodrop, tstate, armed, cookies, htc,
                 done, dropped, netifStopped, sendFails, txPc, txPkt, txHold,
                 tmHold, dupsLeft>>

(* epping_timer_state = EPPING_TX_TIMER_STOPPED, without data_lock, after *)
(* the queue was seen empty (line 180) or flushed (line 212).             *)
TmStop ==
  /\ tmPc \in {"stop", "end"}
  /\ tstate' = "stopped"
  /\ tmPc' = "idle"
  /\ UNCHANGED <<kind, eidOk, pending, nodrop, armed, cookies, htc, done,
                 dropped, netifStopped, sendFails, txPc, txPkt, txHold, tmHold,
                 dupsLeft>>

(* The callback's flush loop: remove the head, or end with nodrop_skb NULL. *)
TmRemove ==
  /\ tmPc = "flush"
  /\ \/ /\ nodrop = <<>>
        /\ tmPc' = "end"
        /\ UNCHANGED <<nodrop, tmHold>>
     \/ /\ nodrop # <<>>
        /\ tmHold' = Head(nodrop)
        /\ nodrop' = Tail(nodrop)
        /\ tmPc' = "sendq"
  /\ UNCHANGED <<kind, eidOk, pending, tstate, armed, cookies, htc, done,
                 dropped, netifStopped, sendFails, txPc, txPkt, txHold,
                 dupsLeft>>

(* Send the removed skb; on failure insert it back at the head and break   *)
(* with nodrop_skb non-NULL.                                               *)
TmSendQueued ==
  /\ tmPc = "sendq"
  /\ \/ /\ SendIntOk(tmHold)
        /\ tmPc' = "flush"
        /\ UNCHANGED nodrop
     \/ /\ SendIntFail
        /\ nodrop' = <<tmHold>> \o nodrop
        /\ tmPc' = "rearm"
  /\ tmHold' = NULL
  /\ UNCHANGED <<kind, eidOk, pending, tstate, armed, done, dropped,
                 netifStopped, txPc, txPkt, txHold, dupsLeft>>

(* nodrop_skb non-NULL: under data_lock, arm the timer unless the state   *)
(* is RUNNING.                                                             *)
TmRearm ==
  /\ tmPc = "rearm"
  /\ ArmIfNotRunning
  /\ tmPc' = "idle"
  /\ UNCHANGED <<kind, eidOk, pending, nodrop, cookies, htc, done, dropped,
                 netifStopped, sendFails, txPc, txPkt, txHold, tmHold,
                 dupsLeft>>

-----------------------------------------------------------------------------
(* Mutant: epping_free_cookie is missing from the completion loop.       *)
TxCompleteKeepsCookie(x, cancelled) ==
  /\ x \in htc
  /\ htc' = htc \ {x}
  /\ done' = done \cup {x}
  /\ netifStopped' = (netifStopped /\ cancelled)
  /\ UNCHANGED <<kind, eidOk, pending, nodrop, tstate, armed, dropped, cookies,
                 sendFails, txPc, txPkt, txHold, tmPc, tmHold, dupsLeft>>

(* epping_tx_complete_multiple for a packet HTC is done with: its cookie   *)
(* is freed, the skb is freed, and unless its status is A_ECANCELED (HTC  *)
(* flushing) the netif queue is woken.                                     *)
TxComplete(x, cancelled) ==
  /\ x \in htc
  /\ htc' = htc \ {x}
  /\ cookies' = cookies + 1
  /\ done' = done \cup {x}
  /\ netifStopped' = (netifStopped /\ cancelled)
  /\ UNCHANGED <<kind, eidOk, pending, nodrop, tstate, armed, dropped,
                 sendFails, txPc, txPkt, txHold, tmPc, tmHold, dupsLeft>>

(* epping_tx_queue_full (HIF_SDIO): HTC's queue is full; netif_stop_queue. *)
TxQueueFull ==
  /\ htc # {}
  /\ ~netifStopped
  /\ netifStopped' = TRUE
  /\ UNCHANGED <<kind, eidOk, pending, nodrop, tstate, armed, cookies, htc,
                 done, dropped, sendFails, txPc, txPkt, txHold, tmPc, tmHold,
                 dupsLeft>>

(* epping_tx_dup_pkt from the rx path: a cookie, a copy, htc_send_pkt;    *)
(* any failure frees what was taken and drops the echo.                   *)
TxDupPkt(d) ==
  /\ d \in dupsLeft
  /\ dupsLeft' = dupsLeft \ {d}
  /\ \/ /\ cookies = 0
        /\ UNCHANGED <<cookies, htc, sendFails>>
     \/ /\ cookies > 0
        /\ UNCHANGED <<cookies, htc, sendFails>>
     \/ /\ cookies > 0
        /\ cookies' = cookies - 1
        /\ HtcAccept(d)
        /\ UNCHANGED sendFails
     \/ /\ cookies > 0
        /\ HtcRefuse
        /\ UNCHANGED <<cookies, htc>>
  /\ UNCHANGED <<kind, eidOk, pending, nodrop, tstate, armed, done, dropped,
                 netifStopped, txPc, txPkt, txHold, tmPc, tmHold>>

TxNext ==
  \/ \E p \in Pkts : TxStart(p)
  \/ TxRemove \/ TxSendQueued \/ TxSendOrig \/ TxFail

TimerNext ==
  TimerFire \/ TmCheck \/ TmStop \/ TmRemove \/ TmSendQueued \/ TmRearm

Next ==
  \/ TxNext
  \/ TimerNext
  \/ \E x \in htc, c \in BOOLEAN : TxComplete(x, c)
  \/ TxQueueFull
  \/ \E d \in Dups : TxDupPkt(d)

(* A started call of epping_tx_send runs to its end, an armed timer fires  *)
(* and its callback runs to its end (softirq), and HTC completes what it   *)
(* holds.  The stack's traffic and the rx echoes get no fairness.         *)
Fairness ==
  /\ WF_vars(TxRemove \/ TxSendQueued \/ TxSendOrig \/ TxFail)
  /\ WF_vars(TimerNext)
  /\ WF_vars(\E x \in htc : TxComplete(x, FALSE))

Spec == Init /\ [][Next]_vars

FairSpec == Spec /\ Fairness

-----------------------------------------------------------------------------
Kind == {"nodrop", "drop", "non_epping", "bad_ac"}

TypeOK ==
  /\ kind \in [Pkts -> Kind] /\ eidOk \in BOOLEAN
  /\ pending \subseteq Pkts
  /\ nodrop \in Seq(Pkts)
  /\ tstate \in {"stopped", "running"} /\ armed \in BOOLEAN
  /\ cookies \in 0 .. NumCookies
  /\ htc \subseteq Pkts \cup Dups /\ done \subseteq Pkts \cup Dups
  /\ dropped \subseteq Pkts
  /\ sendFails \in 0 .. MaxSendFail
  /\ txPc \in {"idle", "flush", "sendq", "orig", "fail"}
  /\ tmPc \in {"idle", "check", "stop", "flush", "sendq", "rearm", "end"}
  /\ {txPkt, txHold, tmHold} \subseteq Pkts \cup {NULL}

(* With a valid endpoint, every cookie is free or attached to a packet    *)
(* HTC holds: the tx path, the timer callback, the echo path and the      *)
(* completion callback take and return cookies in every interleaving      *)
(* without losing one.                                                     *)
CookiesConserved ==
  eidOk => cookies + Cardinality(htc) = NumCookies

(* A nodrop skb that is queued is eventually sent: the retry timer (or a  *)
(* later transmit) flushes the nodrop queue, as the comment at lines      *)
(* 243-252 says, even when no more traffic arrives.                       *)
NoDropEventuallySent ==
  [](nodrop # <<>> => <>(nodrop = <<>>))

====
