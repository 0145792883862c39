---------------------------- MODULE HttRxAddrMap ----------------------------
(***************************************************************************)
(* What the rx address hash table promises its callers (fill_n inserts,    *)
(* the in-order pop looks up), with no buckets, pools or lists: a partial  *)
(* map from physical address to network buffer.                           *)
(*                                                                         *)
(*   insert(paddr, netbuf)  adds the pair, or fails and changes nothing    *)
(*   lookup(paddr)          removes the pair and returns its buffer; a     *)
(*                          miss returns NULL and triggers recovery; once  *)
(*                          the table is detached it returns NULL quietly  *)
(*   deinit                 detaches the table, then releases (unmaps and  *)
(*                          frees) every buffer still in it, each once     *)
(***************************************************************************)
EXTENDS FiniteSets

CONSTANTS Addrs, Bufs, NoBuf

VARIABLES
  amap,      \* set of <<paddr, netbuf>> pairs in the table
  ret,       \* the buffer the last lookup returned, or NoBuf
  tstate,    \* "ready", "detached" (deinit running) or "freed"
  released,  \* buffers deinit has unmapped and freed
  recovery   \* a lookup missed and triggered recovery

avars == <<amap, ret, tstate, released, recovery>>

Keys == {p[1] : p \in amap}
Vals == {p[2] : p \in amap}

AInit ==
  /\ amap = {}
  /\ ret = NoBuf
  /\ tstate = "ready"
  /\ released = {}
  /\ recovery = FALSE

AInsert(a, b) ==
  /\ tstate = "ready"
  /\ amap' = amap \cup {<<a, b>>}
  /\ UNCHANGED <<ret, tstate, released, recovery>>

AInsertFail ==
  /\ tstate = "ready"
  /\ UNCHANGED avars

ALookupHit(a) ==
  /\ tstate = "ready"
  /\ \E p \in amap :
       /\ p[1] = a
       /\ amap' = amap \ {p}
       /\ ret' = p[2]
  /\ UNCHANGED <<tstate, released, recovery>>

ALookupMiss(a) ==
  /\ tstate = "ready"
  /\ a \notin Keys
  /\ ret' = NoBuf
  /\ recovery' = TRUE
  /\ UNCHANGED <<amap, tstate, released>>

ALookupDetached ==
  /\ tstate = "detached"
  /\ ret' = NoBuf
  /\ UNCHANGED <<amap, tstate, released, recovery>>

ADetach ==
  /\ tstate = "ready"
  /\ tstate' = "detached"
  /\ UNCHANGED <<amap, ret, released, recovery>>

ARelease(S) ==
  /\ tstate = "detached"
  /\ S # {}
  /\ S \subseteq amap
  /\ amap' = amap \ S
  /\ released' = released \cup {p[2] : p \in S}
  /\ UNCHANGED <<ret, tstate, recovery>>

AFree ==
  /\ tstate = "detached"
  /\ amap = {}
  /\ tstate' = "freed"
  /\ UNCHANGED <<amap, ret, released, recovery>>

ANext ==
  \/ \E a \in Addrs, b \in Bufs : AInsert(a, b)
  \/ AInsertFail
  \/ \E a \in Addrs : ALookupHit(a) \/ ALookupMiss(a)
  \/ ALookupDetached
  \/ ADetach
  \/ \E S \in SUBSET amap : ARelease(S)
  \/ AFree

ASpec == AInit /\ [][ANext]_avars

=============================================================================
