----------------------------- MODULE MCAesCtrIv -----------------------------
(* An 8-bit counter (4-bit halves, the mask on bit 3) and plaintexts of up *)
(* to 2^3 + 1 blocks: the longest the cleared bit protects at this width.  *)
EXTENDS AesCtrIv

MCMaxBlocks == 2^(CtrBits \div 2 - 1) + 1
=============================================================================
