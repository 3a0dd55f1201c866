--------------------------- MODULE Poly1305Dispatch ---------------------------
(***************************************************************************)
(* Engine selection of Poly1305<feature> in src/lib/mac/poly1305.cc.       *)
(*                                                                         *)
(* Each object holds a reference engine (poly1305_impl, a unique_ptr that  *)
(* may be null) and the radix-44 state (state).  The constructor decides   *)
(* whether poly1305_impl is created; every later call (init, update,      *)
(* reset, finalize) decides again, by the same CPU test, which of the two *)
(* it uses.  Only that control is modelled: which engine a call reaches,  *)
(* whether the reference engine it reaches exists, and which engine holds *)
(* the key.  The MAC arithmetic of both engines is not.                    *)
(***************************************************************************)
EXTENDS FiniteSets

CONSTANTS
  Objs,       \* Poly1305 objects
  Features    \* template instantiations: "Reference", "Avx2", "Avx512", "Dynamic"

Flags == {"F", "DQ", "BW"}       \* AVX512_F, AVX512_DQ, AVX512_BW
Engines == {"none", "ref", "radix44"}

VARIABLES
  cpu,        \* the AVX-512 flags CpuId reports (fixed for the process)
  exists,     \* object constructed and not destroyed
  feat,       \* its template feature
  impl,       \* poly1305_impl != nullptr
  origin,     \* how the object was made: "ctor" or "copy"
  keyEngine,  \* engine whose state holds the key set by the last init
  lastEngine, \* engine the last call dispatched to
  crashed     \* origins of objects a call dereferenced a null poly1305_impl of

vars == <<cpu, exists, feat, impl, origin, keyEngine, lastEngine, crashed>>

\* CpuId::cpuHasAvx512(AVX512_F) && ...(AVX512_DQ) && ...(AVX512_BW)
HasAvx512(c) == Flags \subseteq c

\* Mutant: the constructor tests AVX512_F only.
MakesRefOnlyF(f) ==
  \/ f \in {"Reference", "Avx2"}
  \/ f = "Dynamic" /\ "F" \notin cpu

\* The constructor: make_unique<Poly1305Ref>() for eReference and eAvx2,
\* and for eDynamic when the CPU lacks AVX-512 F/DQ/BW.
MakesRef(f) ==
  \/ f \in {"Reference", "Avx2"}
  \/ f = "Dynamic" /\ ~HasAvx512(cpu)

(***************************************************************************)
(* The dispatch at the head of init, update, reset and finalize: each      *)
(* method has its own if constexpr chain and its own copy of the CpuId     *)
(* test.  eReference and eAvx2 go to poly1305_impl, eAvx512 to the         *)
(* radix-44 kernels, eDynamic by the AVX-512 F/DQ/BW test.                 *)
(***************************************************************************)
initEngine(f) ==
  CASE f \in {"Reference", "Avx2"} -> "ref"
    [] f = "Avx512" \/ HasAvx512(cpu) -> "radix44"
    [] OTHER -> "ref"

\* Mutant: the eDynamic branch has no else, so a CPU without AVX-512 falls
\* through to the trailing err = ALC_ERROR_BAD_STATE and reaches no engine.
EngineNoFallback(f) ==
  CASE f \in {"Reference", "Avx2"} -> "ref"
    [] f = "Avx512" \/ HasAvx512(cpu) -> "radix44"
    [] OTHER -> "BAD_STATE"

updateEngine(f) ==
  CASE f \in {"Reference", "Avx2"} -> "ref"
    [] f = "Avx512" \/ HasAvx512(cpu) -> "radix44"
    [] OTHER -> "ref"

resetEngine(f) ==
  CASE f \in {"Reference", "Avx2"} -> "ref"
    [] f = "Avx512" \/ HasAvx512(cpu) -> "radix44"
    [] OTHER -> "ref"

\* Mutant: finalize's copy of the test omits AVX512_BW.
finalizeEngineNoBW(f) ==
  CASE f \in {"Reference", "Avx2"} -> "ref"
    [] f = "Avx512" \/ {"F", "DQ"} \subseteq cpu -> "radix44"
    [] OTHER -> "ref"

finalizeEngine(f) ==
  CASE f \in {"Reference", "Avx2"} -> "ref"
    [] f = "Avx512" \/ HasAvx512(cpu) -> "radix44"
    [] OTHER -> "ref"

\* Reaching the reference engine through a null poly1305_impl.
Deref(o, e) ==
  crashed' = IF e = "ref" /\ ~impl[o] THEN crashed \cup {origin[o]} ELSE crashed

Init ==
  /\ cpu \in SUBSET Flags
  /\ exists = [o \in Objs |-> FALSE]
  /\ feat = [o \in Objs |-> "Dynamic"]
  /\ impl = [o \in Objs |-> FALSE]
  /\ origin = [o \in Objs |-> "ctor"]
  /\ keyEngine = [o \in Objs |-> "none"]
  /\ lastEngine = [o \in Objs |-> "none"]
  /\ crashed = {}

\* Poly1305<f>(); eAvx512 is only instantiated on a CPU that has it.
Construct(o, f) ==
  /\ ~exists[o]
  /\ f = "Avx512" => HasAvx512(cpu)
  /\ exists' = [exists EXCEPT ![o] = TRUE]
  /\ feat' = [feat EXCEPT ![o] = f]
  /\ impl' = [impl EXCEPT ![o] = MakesRef(f)]
  /\ origin' = [origin EXCEPT ![o] = "ctor"]
  /\ keyEngine' = [keyEngine EXCEPT ![o] = "none"]
  /\ lastEngine' = [lastEngine EXCEPT ![o] = "none"]
  /\ UNCHANGED <<cpu, crashed>>

\* Poly1305(const Poly1305& src) {}: poly1305_impl and state are
\* default-constructed; nothing of src is copied.
CopyConstruct(s, d) ==
  /\ exists[s] /\ ~exists[d]
  /\ exists' = [exists EXCEPT ![d] = TRUE]
  /\ feat' = [feat EXCEPT ![d] = feat[s]]
  /\ impl' = [impl EXCEPT ![d] = FALSE]
  /\ origin' = [origin EXCEPT ![d] = "copy"]
  /\ keyEngine' = [keyEngine EXCEPT ![d] = "none"]
  /\ lastEngine' = [lastEngine EXCEPT ![d] = "none"]
  /\ UNCHANGED <<cpu, crashed>>

\* virtual ~Poly1305() = default.
Destroy(o) ==
  /\ exists[o]
  /\ exists' = [exists EXCEPT ![o] = FALSE]
  /\ UNCHANGED <<cpu, feat, impl, origin, keyEngine, lastEngine, crashed>>

\* init(key, keyLen): keyLen != 32 returns ALC_ERROR_NOT_SUPPORTED before
\* anything changes; otherwise state.finalized = false and the dispatch.
InitKey(o, len32) ==
  /\ exists[o]
  /\ IF len32
     THEN LET e == initEngine(feat[o])
          IN /\ keyEngine' = [keyEngine EXCEPT ![o] = e]
             /\ lastEngine' = [lastEngine EXCEPT ![o] = e]
             /\ Deref(o, e)
     ELSE UNCHANGED <<keyEngine, lastEngine, crashed>>
  /\ UNCHANGED <<cpu, exists, feat, impl, origin>>

\* A call that keeps the key: dispatch, then the engine's operation.
Call(o, e) ==
  /\ exists[o]
  /\ lastEngine' = [lastEngine EXCEPT ![o] = e]
  /\ Deref(o, e)
  /\ UNCHANGED <<cpu, exists, feat, impl, origin, keyEngine>>

Update(o) == Call(o, updateEngine(feat[o]))

Reset(o) == Call(o, resetEngine(feat[o]))

Finalize(o) == Call(o, finalizeEngine(feat[o]))

Next ==
  \E o \in Objs :
    \/ \E f \in Features : Construct(o, f)
    \/ \E d \in Objs : o # d /\ CopyConstruct(o, d)
    \/ Destroy(o)
    \/ \E len32 \in BOOLEAN : InitKey(o, len32)
    \/ Update(o)
    \/ Reset(o)
    \/ Finalize(o)

Spec == Init /\ [][Next]_vars

(***************************************************************************)
(* Properties                                                              *)
(***************************************************************************)
TypeOK ==
  /\ cpu \subseteq Flags
  /\ exists \in [Objs -> BOOLEAN]
  /\ feat \in [Objs -> Features]
  /\ impl \in [Objs -> BOOLEAN]
  /\ origin \in [Objs -> {"ctor", "copy"}]
  /\ keyEngine \in [Objs -> Engines]
  /\ lastEngine \in [Objs -> Engines]
  /\ crashed \subseteq {"ctor", "copy"}

(* No call on an object made by the constructor reaches the reference     *)
(* engine through a null poly1305_impl: the constructor creates it exactly *)
(* where init/update/reset/finalize will dispatch to it, on every CPU and  *)
(* for every template feature.                                             *)
ConstructedNoNullDeref == "ctor" \notin crashed

(* No call on any object, copies included, reaches the reference engine    *)
(* through a null poly1305_impl.                                           *)
NoNullDeref == crashed = {}

(* Every call after a successful init reaches the engine that init keyed:  *)
(* the copies of the AVX-512 F/DQ/BW test in init, update, reset and       *)
(* finalize agree on every CPU, so no later call runs on the engine whose  *)
(* state holds no key.                                                     *)
EngineConsistent ==
  \A o \in Objs :
    exists[o] /\ keyEngine[o] # "none" => lastEngine[o] = keyEngine[o]
=============================================================================
