--------------------------- MODULE MC_HttRxAmsduPop -------------------------
EXTENDS HttRxAmsduPop

(* HTT_RX_BUF_SIZE and a descriptor size; the lengths tried are the        *)
(* boundaries of each case: empty, exactly full, one byte over, above the *)
(* 0x3000 workaround; and for one continuation: one byte short (residual   *)
(* underflow), exactly one buffer, full, one byte over.                    *)
MC_BufSize == 1920
MC_DescSize == 256
MC_WarLimit == 12288

MC_LensAll(c) ==
  IF c = 0 THEN {0, MC_BufSize - MC_DescSize, MC_BufSize - MC_DescSize + 1,
                 MC_WarLimit + 1}
  ELSE {c * MC_BufSize - 1, c * MC_BufSize,
        c * MC_BufSize + MC_BufSize - MC_DescSize,
        c * MC_BufSize + MC_BufSize - MC_DescSize + 1}

(* Every build: the 0x3000 workaround on or off; DEBUG_DMA_DONE off, or  *)
(* on with or without HTT_RX_RESTORE (which only matters with it).       *)
MC_Builds == [war : BOOLEAN, dbg : BOOLEAN, restore : BOOLEAN]

====
