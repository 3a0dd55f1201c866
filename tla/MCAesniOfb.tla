---------------------------- MODULE MCAesniOfb ----------------------------
(***************************************************************************)
(* Model values for AesniOfb: empty, sub-block, one-block and multi-block  *)
(* with tail lengths, up to six calls on one IV buffer.                   *)
(***************************************************************************)
EXTENDS AesniOfb

MCLens == {0, 5, 16, 21, 32, 37, 48}
=============================================================================
