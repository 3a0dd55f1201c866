------------------------- MODULE MCVaesGcmEncrypt -------------------------
(***************************************************************************)
(* Model values for VaesGcmEncrypt.  Lanes = 4 as in the code.  The        *)
(* counter word is 8 bits wide instead of 32, so a caller limit of         *)
(* 2^8 - 2 blocks plays the role of GCM's 2^32 - 2.  The lengths make one  *)
(* call run every stage of the cascade (2037 bytes = 64 + 32 + 16 + 8 + 4  *)
(* + 3 blocks + 5 bytes), others stop after the 16- and 8-block steps      *)
(* (400 bytes = 25 blocks), run only the residual loop, or are a bare      *)
(* partial block.                                                          *)
(***************************************************************************)
EXTENDS VaesGcmEncrypt

MCLens == {0, 5, 16, 48, 130, 400, 2032, 2037}
MCCallerLimit == 2^CtrBits - 2
=============================================================================
