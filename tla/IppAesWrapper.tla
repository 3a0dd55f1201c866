---------------------------- MODULE IppAesWrapper ----------------------------
(***************************************************************************)
(* The IPP-compatibility wrapper context ipp_wrp_aes_ctx as used by        *)
(* alcp_encdecAES (src/lib/compat/ipp/include/aes/ipp_aes_common.hh), the  *)
(* common body of the IPP CBC/CTR/CFB/OFB/XTS entry points, and by         *)
(* ippsAES_CCMInit (src/lib/compat/ipp/aes/ipp_aes_ccm_init.cc).           *)
(*                                                                         *)
(* The ALCP cipher handle is created lazily inside the context on a call   *)
(* that finds handle.ch_context null; the mode and IV pointer are stored   *)
(* in the context only then.  The handle memory is a heap block; the      *)
(* cipher itself (request, init, encrypt) is abstracted to whether each    *)
(* step succeeds.  Encrypt and decrypt take the same path and are one      *)
(* action.                                                                 *)
(***************************************************************************)
CONSTANTS
  Modes,       \* ALCP modes a caller passes (model values)
  Ivs,         \* distinct caller IV buffers (pCtrValue)
  Blocks,      \* heap blocks malloc may return
  EncCanFail,  \* TRUE: alcp_cipher_encrypt/decrypt may return an error
  ReqCanFail,  \* TRUE: alcp_cipher_request may return an error
  CcmReinit    \* TRUE: ippsAES_CCMInit with a key may be called on a used state

Null == "null"
None == [mode |-> "none", iv |-> "none"]
IppStatus == {"ippStsNoErr", "ippStsErr", "ippStsUnderRunErr"}

VARIABLES
  ch,        \* context->handle.ch_context: Null or a heap block
  live,      \* heap blocks malloc'd and not yet freed
  ctxMode,   \* context->mode
  ctxIv,     \* context->iv
  arg,       \* mode and IV the last call passed
  used,      \* mode and IV the cipher of the last call ran with (or None)
  ret        \* IppStatus the last call returned

vars == <<ch, live, ctxMode, ctxIv, arg, used, ret>>

Init ==
  /\ ch = Null
  /\ live = {}
  /\ ctxMode = "none"
  /\ ctxIv = "none"
  /\ arg = None
  /\ used = None
  /\ ret = "ippStsNoErr"

(***************************************************************************)
(* alcp_encdecAES(pSrc, pDst, len, pCtx, pCtrValue, _, mode, enc)          *)
(***************************************************************************)

\* Init (its error is only printed), then encrypt or decrypt on the handle
\* with the context's mode and IV; on error return ippStsUnderRunErr and
\* keep the handle; on success alcp_cipher_finish, free, null.
RunCipher(b, liveNow) ==
  /\ used' = [mode |-> ctxMode', iv |-> ctxIv']
  /\ \E ok \in IF EncCanFail THEN BOOLEAN ELSE {TRUE} :
       IF ok THEN /\ ch' = Null
                  /\ live' = liveNow \ {b}
                  /\ ret' = "ippStsNoErr"
             ELSE /\ ch' = b
                  /\ live' = liveNow
                  /\ ret' = "ippStsUnderRunErr"

\* Mutant: the request error is passed through as the ALCP error code.
RequestFailsReturnErr(b) ==
  /\ ch' = Null /\ live' = live /\ used' = None /\ ret' = "ALC_ERROR"

\* Mutant: the block is not freed when the request fails.
RequestFailsNoFree(b) ==
  /\ ch' = Null /\ live' = live \cup {b} /\ used' = None /\ ret' = "ippStsErr"

\* alcp_cipher_request failed: free(ch_context); ch_context = nullptr;
\* return ippStsErr.
RequestFails(b) ==
  /\ ch' = Null
  /\ live' = live
  /\ used' = None
  /\ ret' = "ippStsErr"

alcp_encdecAES(m, iv) ==
  /\ arg' = [mode |-> m, iv |-> iv]
  /\ IF ch = Null
     THEN /\ ctxMode' = m
          /\ ctxIv' = iv
          /\ \E b \in Blocks \ live :
               \/ ReqCanFail /\ RequestFails(b)
               \/ RunCipher(b, live \cup {b})
     ELSE /\ UNCHANGED <<ctxMode, ctxIv>>
          /\ RunCipher(ch, live)

(***************************************************************************)
(* ippsAES_CCMInit(pKey, keyLen, pState, ctxSize)                          *)
(***************************************************************************)
\* With a key: key, keyLen and mode stored, ch_context = nullptr.
CCMInitKey ==
  /\ CcmReinit \/ ch = Null
  /\ ch' = Null
  /\ ctxMode' = "CCM"
  /\ UNCHANGED <<live, ctxIv, arg, used, ret>>

\* Without a key: alcp_cipher_finish, free and null a handle if there is one.
CCMInitNoKey ==
  /\ ch' = Null
  /\ live' = IF ch # Null THEN live \ {ch} ELSE live
  /\ UNCHANGED <<ctxMode, ctxIv, arg, used, ret>>

Next ==
  \/ \E m \in Modes, iv \in Ivs : alcp_encdecAES(m, iv)
  \/ CCMInitKey
  \/ CCMInitNoKey

Spec == Init /\ [][Next]_vars

(***************************************************************************)
(* Properties                                                              *)
(***************************************************************************)
TypeOK ==
  /\ ch \in {Null} \cup Blocks
  /\ live \subseteq Blocks
  /\ ctxMode \in Modes \cup {"none", "CCM"}
  /\ ctxIv \in Ivs \cup {"none"}
  /\ ret \in IppStatus

(* The wrapper owns at most the one handle the context points to: every    *)
(* block malloc'd for a handle is freed on the request-failure, success    *)
(* and CCM-init paths, or is still reachable through ch_context (after an  *)
(* encrypt error) so the next call or CCM init frees it.                   *)
NoLeak == live = IF ch = Null THEN {} ELSE {ch}

(* Each call's cipher runs with the mode and the IV buffer that call       *)
(* passed (IPP entry points take both per call).                           *)
CallSeesOwnParams == used \in {None, arg}
=============================================================================
