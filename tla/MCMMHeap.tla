------------------------------ MODULE MCMMHeap ------------------------------
(* Requests below and above the step of a size class, the smallest block,  *)
(* the largest block and one byte more; a calloc whose product is exact    *)
(* and one whose product does not fit size_t.                              *)
EXTENDS MMHeap

MCRequest == {0, 1, 68, 104, BlkMax, BlkMax + 1, 2^SizeBits - 1}
MCPair == {<<5, 8>>, <<2^(SizeBits - 1), 2>>, <<2^(SizeBits - 1) + 8, 2>>}
MCBoundary == {16}
==============================================================================
