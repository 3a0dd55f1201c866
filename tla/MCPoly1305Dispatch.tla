--------------------------- MODULE MCPoly1305Dispatch ---------------------------
(* Two objects, all four template instantiations, and every subset of the  *)
(* AVX-512 F/DQ/BW flags as the CPU.                                        *)
EXTENDS Poly1305Dispatch

CONSTANTS p1, p2

MCObjs == {p1, p2}
MCFeatures == {"Reference", "Avx2", "Avx512", "Dynamic"}
=============================================================================
