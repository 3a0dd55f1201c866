------------------------------- MODULE MCMacCapi -------------------------------
(* Two application handles, the handle of run_cmac and three heap blocks:  *)
(* one block per handle, so both application handles can hold an object   *)
(* while the client holds its own, and a copy or a request after finish    *)
(* lands on a block another handle used before.                            *)
EXTENDS CmacClient

CONSTANTS h1, h2, c

MCHandles == {h1, h2, c}
=============================================================================
