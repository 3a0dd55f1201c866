------------------------------ MODULE MacHandle ------------------------------
(***************************************************************************)
(* What the MAC C API of src/lib/capi/c_mac.cc promises for CMAC handles,  *)
(* stated per handle and without the heap: each handle is in one phase,    *)
(* and every call returns the status the Cmac contract gives for that      *)
(* phase.  The contract is the one src/lib/mac/tests/cmac_unit_test.cc     *)
(* tests: update or finalize before a key is set, update after finalize,   *)
(* and a second finalize are ALC_ERROR_BAD_STATE; reset keeps the key and  *)
(* allows a new message; a rejected key leaves no key set.                 *)
(*                                                                         *)
(* Phases: "raw" (context memory not yet requested), "nokey", "keyed",     *)
(* "final", "finished" (after alcp_mac_finish; the memory may be reused).  *)
(* MacCapi implements this specification.                                  *)
(***************************************************************************)
CONSTANTS
  Handles,   \* the application's handles
  KeyOk      \* key sizes the caller may pass: TRUE (valid) and/or FALSE

VARIABLES
  phase,     \* phase of each handle
  ret        \* the last call on each handle and its status: [op, r]

vars == <<phase, ret>>

Live == {"nokey", "keyed", "final"}
Reusable == {"raw", "finished"}
Result == {"NONE", "BAD_STATE", "INVALID_ARG"}
Ops == {"none", "request", "init", "update", "finalize", "reset", "finish", "copy"}

Init ==
  /\ phase = [h \in Handles |-> "raw"]
  /\ ret = [h \in Handles |-> [op |-> "none", r |-> "NONE"]]

Set(h, p, op, r) ==
  /\ phase' = [phase EXCEPT ![h] = p]
  /\ ret' = [ret EXCEPT ![h] = [op |-> op, r |-> r]]

Request(h) == phase[h] \in Reusable /\ Set(h, "nokey", "request", "NONE")

\* A valid key starts a new message; a rejected key leaves no key set.
KeyInit(h, ok) ==
  /\ phase[h] \in Live
  /\ IF ok THEN Set(h, "keyed", "init", "NONE")
        ELSE Set(h, "nokey", "init", "INVALID_ARG")

Update(h) ==
  /\ phase[h] \in Live
  /\ Set(h, phase[h], "update", IF phase[h] = "keyed" THEN "NONE" ELSE "BAD_STATE")

Finalize(h) ==
  /\ phase[h] \in Live
  /\ IF phase[h] = "keyed" THEN Set(h, "final", "finalize", "NONE")
                           ELSE Set(h, phase[h], "finalize", "BAD_STATE")

Reset(h) ==
  /\ phase[h] \in Live
  /\ Set(h, IF phase[h] = "nokey" THEN "nokey" ELSE "keyed", "reset", "NONE")

Finish(h) == phase[h] \in Live /\ Set(h, "finished", "finish", "NONE")

\* The destination continues exactly where the source is.
Copy(s, d) ==
  /\ s # d
  /\ phase[s] \in Live
  /\ phase[d] \in Reusable
  /\ Set(d, phase[s], "copy", "NONE")

Next ==
  \E h \in Handles :
    \/ Request(h)
    \/ \E ok \in KeyOk : KeyInit(h, ok)
    \/ Update(h)
    \/ Finalize(h)
    \/ Reset(h)
    \/ Finish(h)
    \/ \E d \in Handles : Copy(h, d)

Spec == Init /\ [][Next]_vars
=============================================================================
