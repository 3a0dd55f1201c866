------------------------------ MODULE MCSha512Avx ------------------------------
(* Two contexts; calls of 0, 1, 2 and 3 whole chunks and one with a       *)
(* 72-byte remainder, so that every context sees the odd-chunk path, the  *)
(* pair path, both in one call, and pairs following an odd call.          *)
EXTENDS Sha512Avx
CONSTANTS d1, d2
MCCtxs == {d1, d2}
MCLens == {0, 128, 256, 384, 200}
=============================================================================
