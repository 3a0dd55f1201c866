---------------------------- MODULE MCIppAesWrapper ----------------------------
(* Two modes, two IV buffers and two heap blocks: a call after a failed    *)
(* one can pass a different mode and IV, and a new handle can land in the  *)
(* block a freed one used.                                                 *)
EXTENDS IppAesWrapper

CONSTANTS mCBC, mXTS, iv1, iv2, blk1, blk2

MCModes == {mCBC, mXTS}
MCIvs == {iv1, iv2}
MCBlocks == {blk1, blk2}
=============================================================================
