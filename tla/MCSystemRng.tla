------------------------------ MODULE MCSystemRng ------------------------------
(* Two threads, buffers of 0 and 3 bytes, a 3-bit size_t so that the    *)
(* wrap of out += -1 is reachable, and the code's 10 tries.                *)
EXTENDS SystemRng

CONSTANTS t1, t2

MCThreads == {t1, t2}
MCLengths == {0, 3}
=============================================================================
