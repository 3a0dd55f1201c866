------------------------------ MODULE CmacClient ------------------------------
(***************************************************************************)
(* run_cmac of src/examples/mac/cmac.c as a client of the MAC C API:       *)
(* malloc the context, then request, init, update, finalize, finish and    *)
(* free, returning the first error status it meets (after printing it).    *)
(* The client owns one handle (the file's static handle); the rest of the  *)
(* application makes any calls on the other handles, interleaved with the  *)
(* client's, and shares the heap the Cmac objects are allocated from.      *)
(*                                                                         *)
(* keyOk is run_cmac's key_size argument abstracted to valid or not:       *)
(* demo_cmac passes a 16-byte key, but run_cmac is written for any key.    *)
(* Buffers, lengths and the printed messages are left out.                 *)
(***************************************************************************)
EXTENDS MacCapi

CONSTANTS
  Client,      \* the handle of run_cmac
  ClientKeys   \* key sizes run_cmac may be given: TRUE (valid) and/or FALSE

ASSUME Client \in Handles /\ ClientKeys \subseteq BOOLEAN

VARIABLES
  cpc,     \* the statement of run_cmac about to run, or "returned"
  chCtx,   \* handle.ch_context: "null", "alloc" (malloc'd) or "freed"
  keyOk,   \* the key passed to run_cmac is of a valid size
  err      \* run_cmac's err, its return value once cpc = "returned"

clientVars == <<cpc, chCtx, keyOk, err>>
allVars == <<vars, clientVars>>

Apps == Handles \ {Client}

\* The status of the API call this step makes on the client's handle.
Status == ret'[Client].r

\* err = <call>; if (alcp_is_error(err)) { printf(...); return err; }
CheckErr(next) ==
  /\ err' = Status
  /\ cpc' = IF Status = "NONE" THEN next ELSE "returned"
  /\ UNCHANGED <<chCtx, keyOk>>

\* handle.ch_context = malloc(...); if NULL, return ALC_ERROR_GENERIC.
run_cmac_malloc ==
  /\ cpc = "malloc"
  /\ \/ chCtx' = "alloc" /\ cpc' = "request" /\ UNCHANGED err
     \/ err' = "GENERIC" /\ cpc' = "returned" /\ UNCHANGED chCtx
  /\ UNCHANGED <<vars, keyOk>>

run_cmac_request == cpc = "request" /\ alcp_mac_request(Client) /\ CheckErr("init")

run_cmac_init == cpc = "init" /\ alcp_mac_init(Client, keyOk) /\ CheckErr("update")

run_cmac_update == cpc = "update" /\ alcp_mac_update(Client) /\ CheckErr("finalize")

run_cmac_finalize ==
  cpc = "finalize" /\ alcp_mac_finalize(Client) /\ CheckErr("finish")

\* Mutant: the context freed without alcp_mac_finish.
RunCmacFreeOnly ==
  /\ cpc = "finish"
  /\ chCtx' = "freed" /\ cpc' = "returned"
  /\ UNCHANGED <<vars, keyOk, err>>

\* alcp_mac_finish(&handle); free(handle.ch_context); return err;
run_cmac_finish ==
  /\ cpc = "finish"
  /\ alcp_mac_finish(Client)
  /\ chCtx' = "freed" /\ cpc' = "returned"
  /\ UNCHANGED <<keyOk, err>>

RunCmac ==
  \/ run_cmac_malloc
  \/ run_cmac_request
  \/ run_cmac_init
  \/ run_cmac_update
  \/ run_cmac_finalize
  \/ run_cmac_finish

SysInit ==
  /\ Init
  /\ cpc = "malloc" /\ chCtx = "null" /\ err = "NONE"
  /\ keyOk \in ClientKeys

SysNext ==
  \/ ApiCalls(Apps) /\ UNCHANGED clientVars
  \/ RunCmac

SysSpec == SysInit /\ [][SysNext]_allVars

(***************************************************************************)
(* Properties                                                              *)
(***************************************************************************)
ClientTypeOK ==
  /\ TypeOK
  /\ cpc \in {"malloc", "request", "init", "update", "finalize", "finish", "returned"}
  /\ chCtx \in {"null", "alloc", "freed"}
  /\ keyOk \in BOOLEAN
  /\ err \in MH!Result \cup {"GENERIC"}

(* What run_cmac still holds when it returns.  On ALC_ERROR_NONE it has  *)
(* released both the context memory and (through alcp_mac_finish) its     *)
(* Cmac object; on every error after malloc it returns without finish or   *)
(* free, so the context stays allocated and its Cmac stays on the heap.    *)
(* (ExclusiveOwnership says the Cmac of a built handle is live.)           *)
ReturnedHoldings ==
  cpc = "returned" =>
    /\ chCtx = "freed" <=> err = "NONE"
    /\ Built(Client) <=> chCtx = "alloc"

MHApps == INSTANCE MacHandle WITH Handles <- Apps,
                                  phase <- [h \in Apps |-> Phase(h)],
                                  ret <- [h \in Apps |-> ret[h]]

(* The C API implements the per-handle contract of MacHandle on the other *)
(* handles of the application, while run_cmac's calls interleave with     *)
(* theirs on the shared heap.  (On the client's handle a rejected key     *)
(* departs from it: alcp_mac_init returns ALC_ERROR_NONE.)                 *)
AppsMacHandleSpec == MHApps!Spec
=============================================================================
