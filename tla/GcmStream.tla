------------------------------ MODULE GcmStream ------------------------------
(***************************************************************************)
(* What one GCM encryption stream promises (NIST SP 800-38D, spec 4.3 and  *)
(* 4.4): update calls of any length continue one byte stream; byte b of    *)
(* the stream is xored with the keystream, under the stream's key, of      *)
(* counter block inc32^(b div 16 + 1)(J0), and GHASH folds the 16-byte     *)
(* blocks of the stream in order, block k of n with H^(n-k+1). Counter     *)
(* words wrap modulo 2^CtrBits.                                            *)
(***************************************************************************)
EXTENDS Integers, Sequences

CONSTANTS
  CtrBits,   \* width of the incremented counter word
  Lens       \* lengths (bytes) a caller may pass to one update

VARIABLES
  ks,        \* keystream uses: Seq of [off, len, ctr], in stream order
  ghash,     \* the accumulator: Seq of [off, len, exp]
  done,      \* bytes of the stream so far
  ended,     \* the message is finished
  rounds     \* AES rounds of the key (10, 12 or 14)

vars == <<ks, ghash, done, ended, rounds>>

BlockSize == 16
FirstCtr == 2      \* inc32(J0), J0's counter word being 1

LOCAL Lo(a, b) == IF a < b THEN a ELSE b
LOCAL Hi(a, b) == IF a < b THEN b ELSE a

\* The stream bytes [o, o + len) cut at 16-byte boundaries, each part with
\* the counter of the block it lies in.
CtrPieces(o, len) ==
  LET first == o \div BlockSize
      n     == IF len = 0 THEN 0 ELSE (o + len - 1) \div BlockSize - first + 1
      b(k)  == first + k - 1
  IN [k \in 1..n |->
        [off |-> Hi(o, BlockSize * b(k)),
         len |-> Lo(o + len, BlockSize * b(k) + BlockSize) - Hi(o, BlockSize * b(k)),
         rounds |-> rounds,
         ctr |-> (FirstCtr + b(k)) % (2^CtrBits)]]

\* GHASH over the first m bytes, the last block zero-padded.
SeqGhash(m) ==
  LET n == (m + BlockSize - 1) \div BlockSize
  IN [k \in 1..n |->
        [off |-> (k - 1) * BlockSize,
         len |-> Lo(BlockSize, m - (k - 1) * BlockSize),
         exp |-> n - k + 1]]

Init ==
  /\ ks = <<>>
  /\ ghash = <<>>
  /\ done = 0
  /\ ended = FALSE
  /\ rounds \in {10, 12, 14}

Update(len) ==
  /\ ~ended
  /\ ks' = ks \o CtrPieces(done, len)
  /\ ghash' = SeqGhash(done + len)
  /\ done' = done + len
  /\ UNCHANGED <<ended, rounds>>

Finish ==
  /\ ~ended
  /\ ended' = TRUE
  /\ UNCHANGED <<ks, ghash, done, rounds>>

Next == (\E len \in Lens : Update(len)) \/ Finish

Spec == Init /\ [][Next]_vars
=============================================================================
