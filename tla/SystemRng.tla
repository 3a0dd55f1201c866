------------------------------ MODULE SystemRng ------------------------------
(***************************************************************************)
(* The engines of src/lib/rng/system_rng.cc: SystemRngImpl::randomize     *)
(* under ALCP_CONFIG_OS_HAS_DEVRANDOM (Linux, /dev/urandom) or under       *)
(* ALCP_CONFIG_OS_HAS_GETRANDOM (other non-Windows systems), reached       *)
(* through SystemRng::randomize and SystemRng::readRandom, called by       *)
(* several threads.  The function-static m_fd is shared by all callers     *)
(* and is checked and set without synchronisation; each of those steps is  *)
(* an action of its own so that threads interleave between them.          *)
(*                                                                         *)
(* out is a size_t: read() returning -1 is added modulo 2^SizeBits.        *)
(***************************************************************************)
EXTENDS Integers

CONSTANTS
  Threads,    \* calling threads
  Lengths,    \* buffer lengths a caller may request
  SizeBits,   \* width of size_t (64 in the code)
  Tries,      \* the retry bound of the read loop (10 in the code)
  CanFail,    \* TRUE: open(), CryptAcquireContext, CryptGenRandom may fail
  Engines     \* builds: subset of {"devrandom", "getrandom", "cryptgenrandom"}

ASSUME Lengths \subseteq Nat
ASSUME SizeBits \in Nat \ {0} /\ \A l \in Lengths : l < 2^SizeBits
ASSUME Tries \in Nat
ASSUME CanFail \in BOOLEAN
ASSUME Engines \subseteq {"devrandom", "getrandom", "cryptgenrandom"} /\ Engines # {}

SizeMod == 2^SizeBits
Closed == -1
Fd == 3          \* the descriptor open() returns (its number is immaterial)
OpensCap == 2    \* opens and held saturate here: 2 stands for "two or more"

VARIABLES
  engine,   \* the build's engine, fixed for the process
  m_fd,     \* the static descriptor (-1 until opened)
  opens,    \* descriptors of /dev/urandom opened so far (saturating)
  pc,       \* per thread: "idle", "check", "open", "first", "loop", "win",
            \* "done"
  len,      \* per thread: requested length
  out,      \* per thread: the size_t out
  i,        \* per thread: loop index
  written,  \* per thread: buffer positions a successful read wrote
  ret,      \* per thread: returned status
  held,     \* CryptAcquireContext handles not released (saturating)
  m_prediction_resistance   \* the SystemRng object's flag

vars == <<engine, m_fd, opens, pc, len, out, i, written, ret, held,
          m_prediction_resistance>>

\* What no step of randomize changes.
objVars == <<engine, held, m_prediction_resistance>>

Status == {"NONE", "NOT_PERMITTED", "NO_ENTROPY", "GENERIC"}

Init ==
  /\ engine \in Engines
  /\ m_fd = Closed
  /\ opens = 0
  /\ pc = [t \in Threads |-> "idle"]
  /\ len = [t \in Threads |-> 0]
  /\ out = [t \in Threads |-> 0]
  /\ i = [t \in Threads |-> 0]
  /\ written = [t \in Threads |-> {}]
  /\ ret = [t \in Threads |-> "NONE"]
  /\ held = 0
  /\ m_prediction_resistance \in BOOLEAN

\* SystemRng::randomize / readRandom(buf, length): enter SystemRngImpl.
Call(t, l) ==
  /\ pc[t] \in {"idle", "done"}
  /\ pc' = [pc EXCEPT ![t] = CASE engine = "devrandom" -> "check"
                                 [] engine = "getrandom" -> "first"
                                 [] OTHER                -> "win"]
  /\ len' = [len EXCEPT ![t] = l]
  /\ out' = [out EXCEPT ![t] = 0]
  /\ i' = [i EXCEPT ![t] = 0]
  /\ written' = [written EXCEPT ![t] = {}]
  /\ UNCHANGED <<objVars, m_fd, opens, ret>>

\* if (m_fd < 0): the unsynchronised read of the static.
CheckFd(t) ==
  /\ pc[t] = "check"
  /\ pc' = [pc EXCEPT ![t] = IF m_fd < 0 THEN "open" ELSE "loop"]
  /\ UNCHANGED <<objVars, m_fd, opens, len, out, i, written, ret>>

\* m_fd = open("/dev/urandom", ...); a failure returns NOT_PERMITTED.
OpenOk(t) ==
  /\ pc[t] = "open"
  /\ m_fd' = Fd
  /\ opens' = IF opens < OpensCap THEN opens + 1 ELSE opens
  /\ pc' = [pc EXCEPT ![t] = "loop"]
  /\ UNCHANGED <<objVars, len, out, i, written, ret>>

OpenFail(t) ==
  /\ pc[t] = "open"
  /\ CanFail
  /\ m_fd' = Closed
  /\ pc' = [pc EXCEPT ![t] = "done"]
  /\ ret' = [ret EXCEPT ![t] = "NOT_PERMITTED"]
  /\ UNCHANGED <<objVars, opens, len, out, i, written>>

\* One turn of for (i < 10): if out < length, out += read(m_fd, &output[out],
\* length - out), where read returns -1, 0 or 1..delta bytes; m_fd is read
\* again here, and read(-1, ...) fails with -1.
ReadResults(t) ==
  IF m_fd < 0 THEN {-1} ELSE {-1} \cup 0..(len[t] - out[t])

\* getrandom(&output[out], delta, 0): -1, or up to delta bytes.
GetrandomResults(t) == {-1} \cup 0..(len[t] - out[t])

\* size_t out = getrandom(&output[0], length, 0): a short count, or -1
\* converted to SIZE_MAX.
GetrandomFirst(t) ==
  /\ pc[t] = "first"
  /\ \E r \in GetrandomResults(t) :
       /\ out' = [out EXCEPT ![t] = r % SizeMod]
       /\ written' = [written EXCEPT ![t] = {k \in 0..(r - 1) : r > 0}]
  /\ pc' = [pc EXCEPT ![t] = "loop"]
  /\ UNCHANGED <<objVars, m_fd, opens, len, i, ret>>

\* Mutant: out declared as a signed int, so -1 is not wrapped.
ReadTurnSignedOut(t) ==
  /\ pc[t] = "loop" /\ engine = "devrandom" /\ i[t] < Tries /\ out[t] < len[t]
  /\ \E r \in ReadResults(t) :
       /\ out' = [out EXCEPT ![t] = @ + r]
       /\ written' = [written EXCEPT ![t] =
                        @ \cup {k \in out[t]..(out[t] + r - 1) : r > 0}]
  /\ i' = [i EXCEPT ![t] = @ + 1]
  /\ UNCHANGED <<objVars, m_fd, opens, pc, len, ret>>

\* Mutant: read(m_fd, output, delta) always fills from the buffer start.
ReadTurnAtBufferStart(t) ==
  /\ pc[t] = "loop" /\ engine = "devrandom" /\ i[t] < Tries /\ out[t] < len[t]
  /\ \E r \in ReadResults(t) :
       /\ out' = [out EXCEPT ![t] = (@ + r) % SizeMod]
       /\ written' = [written EXCEPT ![t] = @ \cup {k \in 0..(r - 1) : r > 0}]
  /\ i' = [i EXCEPT ![t] = @ + 1]
  /\ UNCHANGED <<objVars, m_fd, opens, pc, len, ret>>

\* Mutant: while (out < length) with no retry bound.
ReadTurnUnbounded(t) ==
  /\ pc[t] = "loop" /\ out[t] < len[t]
  /\ \E r \in ReadResults(t) :
       /\ out' = [out EXCEPT ![t] = (@ + r) % SizeMod]
       /\ written' = [written EXCEPT ![t] =
                        @ \cup {k \in out[t]..(out[t] + r - 1) : r > 0}]
  /\ UNCHANGED <<objVars, m_fd, opens, pc, len, i, ret>>

ReadTurn(t) ==
  /\ pc[t] = "loop"
  /\ engine = "devrandom"
  /\ i[t] < Tries
  /\ out[t] < len[t]
  /\ \E r \in ReadResults(t) :
       /\ out' = [out EXCEPT ![t] = (@ + r) % SizeMod]
       /\ written' = [written EXCEPT ![t] =
                        @ \cup {k \in out[t]..(out[t] + r - 1) : r > 0}]
  /\ i' = [i EXCEPT ![t] = @ + 1]
  /\ UNCHANGED <<objVars, m_fd, opens, pc, len, ret>>

\* The getrandom build's for (i < 10) retry loop: out += getrandom(
\* &output[out], length - out, 0).
GetrandomTurn(t) ==
  /\ pc[t] = "loop"
  /\ engine = "getrandom"
  /\ i[t] < Tries
  /\ out[t] < len[t]
  /\ \E r \in GetrandomResults(t) :
       /\ out' = [out EXCEPT ![t] = (@ + r) % SizeMod]
       /\ written' = [written EXCEPT ![t] =
                        @ \cup {k \in out[t]..(out[t] + r - 1) : r > 0}]
  /\ i' = [i EXCEPT ![t] = @ + 1]
  /\ UNCHANGED <<objVars, m_fd, opens, pc, len, ret>>

\* Loop exit (i reached 10, or break on out >= length), then
\* if (out != length) return ALC_ERROR_NO_ENTROPY.
Finish(t) ==
  /\ pc[t] = "loop"
  /\ i[t] >= Tries \/ out[t] >= len[t]
  /\ pc' = [pc EXCEPT ![t] = "done"]
  /\ ret' = [ret EXCEPT ![t] = IF out[t] # len[t] THEN "NO_ENTROPY" ELSE "NONE"]
  /\ UNCHANGED <<objVars, m_fd, opens, len, out, i, written>>

\* Under WIN32: CryptAcquireContext failing returns GENERIC; CryptGenRandom
\* failing returns NO_ENTROPY before CryptReleaseContext; otherwise the
\* whole buffer is filled and the handle released.  The handle is local to
\* the call, so the call is one step.
CryptRandomize(t) ==
  /\ pc[t] = "win"
  /\ pc' = [pc EXCEPT ![t] = "done"]
  /\ \/ /\ CanFail
        /\ ret' = [ret EXCEPT ![t] = "GENERIC"]
        /\ UNCHANGED <<written, held>>
     \/ /\ CanFail
        /\ ret' = [ret EXCEPT ![t] = "NO_ENTROPY"]
        /\ held' = IF held < OpensCap THEN held + 1 ELSE held
        /\ UNCHANGED written
     \/ /\ ret' = [ret EXCEPT ![t] = "NONE"]
        /\ written' = [written EXCEPT ![t] = 0..(len[t] - 1)]
        /\ UNCHANGED held
  /\ UNCHANGED <<engine, m_prediction_resistance, m_fd, opens, len, out, i>>

\* SystemRng::setPredictionResistance(value), from a thread not in randomize.
SetPredictionResistance(t, v) ==
  /\ pc[t] \in {"idle", "done"}
  /\ m_prediction_resistance' = v
  /\ UNCHANGED <<engine, held, m_fd, opens, pc, len, out, i, written, ret>>

Next ==
  \E t \in Threads :
    \/ \E l \in Lengths : Call(t, l)
    \/ CheckFd(t)
    \/ OpenOk(t)
    \/ OpenFail(t)
    \/ GetrandomFirst(t)
    \/ ReadTurn(t)
    \/ GetrandomTurn(t)
    \/ CryptRandomize(t)
    \/ \E v \in BOOLEAN : SetPredictionResistance(t, v)
    \/ Finish(t)

\* A thread inside randomize keeps being scheduled.
Fairness ==
  \A t \in Threads :
    WF_vars(CheckFd(t) \/ OpenOk(t) \/ GetrandomFirst(t) \/ ReadTurn(t)
            \/ GetrandomTurn(t) \/ CryptRandomize(t) \/ Finish(t))

Spec == Init /\ [][Next]_vars /\ Fairness

(***************************************************************************)
(* Properties                                                              *)
(***************************************************************************)
TypeOK ==
  /\ engine \in Engines
  /\ held \in 0..OpensCap
  /\ m_prediction_resistance \in BOOLEAN
  /\ m_fd \in {Closed, Fd}
  /\ opens \in 0..OpensCap
  /\ pc \in [Threads -> {"idle", "check", "open", "first", "loop", "win", "done"}]
  /\ out \in [Threads -> 0..(SizeMod - 1)]
  /\ i \in [Threads -> 0..Tries]
  /\ ret \in [Threads -> Status]

(* A call that returns ALC_ERROR_NONE has had every byte of the caller's   *)
(* buffer written by a successful read(), whatever mix of short reads,     *)
(* EOF and -1 results (added into the size_t out) came before.             *)
SuccessFillsBuffer ==
  \A t \in Threads :
    pc[t] = "done" /\ ret[t] = "NONE" => written[t] = 0..(len[t] - 1)

(* Every call of randomize returns: the read loop is bounded by 10 tries.  *)
EveryCallReturns ==
  \A t \in Threads : pc[t] \in {"check", "open", "first", "loop", "win"} ~> pc[t] = "done"

(* The static descriptor is opened at most once per process: concurrent   *)
(* first calls do not each open /dev/urandom and leak all but one.         *)
FdOpenedOnce == opens <= 1
=============================================================================
