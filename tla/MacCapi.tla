------------------------------- MODULE MacCapi -------------------------------
(***************************************************************************)
(* The CMAC path of the MAC C API: src/lib/capi/c_mac.cc (alcp_mac_request,*)
(* _init, _update, _finalize, _reset, _finish, _context_copy) and the      *)
(* wrapper table of src/lib/include/alcp/mac/cmac_build.hh that            *)
(* CmacBuilder::build installs in the context.                             *)
(*                                                                         *)
(* The context lives in the application's ch_context memory; the Cmac     *)
(* object it points to (m_mac) lives on the heap.  Cmac itself is not in   *)
(* src/: its state machine (CmacInit, CmacUpdate, ...) is the contract     *)
(* tested in src/lib/mac/tests/cmac_unit_test.cc.                          *)
(*                                                                         *)
(* The caller follows the order of src/examples/mac/cmac.c: calls other    *)
(* than request and copy-into are made only on a requested, unfinished     *)
(* handle (the API checks only for null pointers, so anything else is a    *)
(* use after free the code cannot detect).                                 *)
(***************************************************************************)
EXTENDS Naturals

CONSTANTS
  Handles,   \* the application's handles
  KeyOk,     \* key sizes the caller may pass: TRUE (valid) and/or FALSE
  MaxObjs    \* heap blocks that can hold a Cmac (the allocator reuses them)

ASSUME MaxObjs \in Nat /\ KeyOk \subseteq BOOLEAN

Null == 0                       \* nullptr
Objs == 1..MaxObjs
CmacState == {"nokey", "keyed", "final"}

VARIABLES
  ctx,    \* per handle: [st |-> "raw" | "built" | "destroyed", mac |-> m_mac]
  heap,   \* per object: [live |-> allocated and not deleted, st |-> Cmac state]
  ret     \* per handle: the last API call and its status, [op, r]

vars == <<ctx, heap, ret>>

(***************************************************************************)
(* The Cmac object (not in src/; from its unit tests).                     *)
(***************************************************************************)
\* The outcomes of Cmac::init.  For a key of a wrong size the test
\* CMAC_wrongKeySize says it currently returns NONE (keyed), its FIXME
\* that it should be rejected: either may happen.
CmacInit(st, ok) ==
  IF ok THEN {[st |-> "keyed", r |-> "NONE"]}
        ELSE {[st |-> "keyed", r |-> "NONE"], [st |-> "nokey", r |-> "INVALID_ARG"]}

CmacUpdate(st) == [st |-> st, r |-> IF st = "keyed" THEN "NONE" ELSE "BAD_STATE"]

CmacFinalize(st) ==
  IF st = "keyed" THEN [st |-> "final", r |-> "NONE"] ELSE [st |-> st, r |-> "BAD_STATE"]

CmacReset(st) == [st |-> IF st = "nokey" THEN "nokey" ELSE "keyed", r |-> "NONE"]

(***************************************************************************)
(* Helpers                                                                 *)
(***************************************************************************)
Built(h) == ctx[h].st = "built"
Mac(h) == ctx[h].mac
FreeObjs == {o \in Objs : ~heap[o].live}   \* where new Cmac may land

\* Apply a Cmac operation to the object of h and return its status.
Dispatch(h, op, res) ==
  /\ heap' = [heap EXCEPT ![Mac(h)].st = res.st]
  /\ ret' = [ret EXCEPT ![h] = [op |-> op, r |-> res.r]]
  /\ UNCHANGED ctx

\* The call returns err = ALC_ERROR_NONE.
ReturnsNone(h, op) == ret' = [ret EXCEPT ![h] = [op |-> op, r |-> "NONE"]]

\* CmacBuilder::build: m_mac = new Cmac() (at o), wrapper table installed.
CmacBuilder_build(h, o) ==
  /\ ctx' = [ctx EXCEPT ![h] = [st |-> "built", mac |-> o]]
  /\ heap' = [heap EXCEPT ![o] = [live |-> TRUE, st |-> "nokey"]]

\* __cmac_build_with_copy: m_mac = new Cmac(*src m_mac) (at o), table copied.
cmac_build_with_copy(s, d, o) ==
  /\ ctx' = [ctx EXCEPT ![d] = [st |-> "built", mac |-> o]]
  /\ heap' = [heap EXCEPT ![o] = [live |-> TRUE, st |-> heap[Mac(s)].st]]

Init ==
  /\ ctx = [h \in Handles |-> [st |-> "raw", mac |-> Null]]
  /\ heap = [o \in Objs |-> [live |-> FALSE, st |-> "nokey"]]
  /\ ret = [h \in Handles |-> [op |-> "none", r |-> "NONE"]]

(***************************************************************************)
(* C API calls                                                             *)
(***************************************************************************)
\* Mutant: the context is placement-constructed but never built.
RequestWithoutBuild(h) ==
  /\ ctx[h].st \in {"raw", "destroyed"}
  /\ ctx' = [ctx EXCEPT ![h] = [st |-> "built", mac |-> Null]]
  /\ ReturnsNone(h, "request")
  /\ UNCHANGED heap

\* new (p_ctx) mac::Context; MacBuilder::build -> CmacBuilder::build:
\* m_mac = new Cmac() and the wrapper table installed.
alcp_mac_request(h) ==
  /\ ctx[h].st \in {"raw", "destroyed"}
  /\ \E o \in FreeObjs : CmacBuilder_build(h, o)
  /\ ReturnsNone(h, "request")

\* p_ctx->init -> __cmac_wrapperInit: p_cmac->init(key, size), whose
\* status is discarded; err stays ALC_ERROR_NONE.
alcp_mac_init(h, ok) ==
  /\ Built(h)
  /\ \E res \in CmacInit(heap[Mac(h)].st, ok) :
       Dispatch(h, "init", [res EXCEPT !.r = "NONE"])

\* p_ctx->update -> __cmac_wrapperUpdate -> p_cmac->update.
alcp_mac_update(h) == Built(h) /\ Dispatch(h, "update", CmacUpdate(heap[Mac(h)].st))

\* p_ctx->finalize -> __cmac_wrapperFinalize -> p_cmac->finalize.
alcp_mac_finalize(h) == Built(h) /\ Dispatch(h, "finalize", CmacFinalize(heap[Mac(h)].st))

\* Mutant: the table's reset entry set to __cmac_wrapperFinalize.
ResetViaFinalize(h) == Built(h) /\ Dispatch(h, "reset", CmacFinalize(heap[Mac(h)].st))

\* p_ctx->reset -> __cmac_wrapperReset -> p_cmac->reset.
alcp_mac_reset(h) == Built(h) /\ Dispatch(h, "reset", CmacReset(heap[Mac(h)].st))

\* p_ctx->finish -> __cmac_wrapperFinish: delete p_cmac; then
\* p_ctx->~Context().  m_mac is left dangling; always returns NONE.
alcp_mac_finish(h) ==
  /\ Built(h)
  /\ heap' = [heap EXCEPT ![Mac(h)].live = FALSE]
  /\ ctx' = [ctx EXCEPT ![h].st = "destroyed"]
  /\ ReturnsNone(h, "finish")

\* Mutant: the duplicate shares the source's Cmac (m_mac copied).
CopyShallow(s, d) ==
  /\ s # d /\ Built(s) /\ ctx[d].st \in {"raw", "destroyed"}
  /\ ctx' = [ctx EXCEPT ![d] = [st |-> "built", mac |-> Mac(s)]]
  /\ ReturnsNone(d, "copy")
  /\ UNCHANGED heap

\* new (dest_ctx) mac::Context; MacBuilder::BuildWithCopy ->
\* __cmac_build_with_copy: m_mac = new Cmac(*src m_mac), table copied.
alcp_mac_context_copy(s, d) ==
  /\ s # d
  /\ Built(s)
  /\ ctx[d].st \in {"raw", "destroyed"}
  /\ \E o \in FreeObjs : cmac_build_with_copy(s, d, o)
  /\ ReturnsNone(d, "copy")

\* Any sequence of API calls on the handles in H (and copies between them).
ApiCalls(H) ==
  \E h \in H :
    \/ alcp_mac_request(h)
    \/ \E ok \in KeyOk : alcp_mac_init(h, ok)
    \/ alcp_mac_update(h)
    \/ alcp_mac_finalize(h)
    \/ alcp_mac_reset(h)
    \/ alcp_mac_finish(h)
    \/ \E d \in H : alcp_mac_context_copy(h, d)

Next == ApiCalls(Handles)

Spec == Init /\ [][Next]_vars

(***************************************************************************)
(* Properties                                                              *)
(***************************************************************************)
(* The handle phase seen through the context and its heap object.          *)
Phase(h) ==
  CASE ctx[h].st = "raw" -> "raw"
    [] ctx[h].st = "destroyed" -> "finished"
    [] OTHER -> heap[Mac(h)].st

MH == INSTANCE MacHandle WITH phase <- [h \in Handles |-> Phase(h)]

TypeOK ==
  /\ ctx \in [Handles -> [st : {"raw", "built", "destroyed"}, mac : {Null} \cup Objs]]
  /\ heap \in [Objs -> [live : BOOLEAN, st : CmacState]]
  /\ ret \in [Handles -> [op : MH!Ops, r : MH!Result]]
  /\ \A h \in Handles : Built(h) => Mac(h) \in Objs

(* Every Cmac object on the heap is owned by exactly one requested handle: *)
(* request, copy and finish neither leak an object (finish deletes what    *)
(* request or copy allocated) nor let two contexts share one, so finishing *)
(* one handle never frees the object another handle still uses.            *)
ExclusiveOwnership ==
  /\ \A h \in Handles : Built(h) => heap[Mac(h)].live
  /\ \A o \in Objs : heap[o].live => \E h \in Handles : Built(h) /\ Mac(h) = o
  /\ \A h, g \in Handles : h # g /\ Built(h) /\ Built(g) => Mac(h) # Mac(g)

(* The C API implements the per-handle contract of MacHandle: every call   *)
(* moves its own handle (and no other) as the Cmac contract says and       *)
(* returns the status the contract gives, including a rejected key.       *)
MacHandleSpec == MH!Spec
=============================================================================
