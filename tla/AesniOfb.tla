------------------------------ MODULE AesniOfb ------------------------------
(***************************************************************************)
(* AES-NI OFB mode of src/lib/arch/avx2/aesni_ofb.cc: EncryptOfb and       *)
(* DecryptOfb both run __crypt_ofb (or experimental::cryptOfb when         *)
(* USE_EXPERIMENTAL is defined).                                           *)
(*                                                                         *)
(* Data is abstracted to keystream indices: the feedback register b1 after *)
(* k encryptions of the IV holds E^k(IV), written here as k.  Each output  *)
(* piece records the byte range it covers, the keystream block it was      *)
(* combined with, and whether the keystream was actually xored in.  The    *)
(* caller's IV buffer holds E^iv(IV0) for the original IV0.                *)
(***************************************************************************)
EXTENDS Integers, Sequences

CONSTANTS
  Lens,          \* message lengths (bytes) a caller may pass to one call
  MaxCalls,      \* bound on the number of calls
  MultiUpdate,   \* OFB_MULTI_UPDATE is defined (b1 is stored back to pIv)
  Experimental,  \* USE_EXPERIMENTAL is defined
  CallerAligned  \* TRUE: the caller never calls again after a partial block

ASSUME Lens \subseteq Nat
ASSUME MaxCalls \in Nat
ASSUME {MultiUpdate, Experimental, CallerAligned} \subseteq BOOLEAN

BlockSize == 16   \* Rijndael::cBlockSize

VARIABLES
  iv,      \* keystream index held in the caller's pIv buffer
  out,     \* output pieces so far: Seq of [off, len, ks, xored]
  off,     \* bytes processed so far
  calls    \* calls so far

vars == <<iv, out, off, calls>>

\* Mutant: the block is xored with b1 before b1 is encrypted.
FullBlockXorBeforeEnc(s) ==
  [s EXCEPT !.b1 = @ + 1,
            !.out = @ \o <<[off |-> s.off, len |-> BlockSize, ks |-> s.b1,
                            xored |-> TRUE]>>,
            !.off = @ + BlockSize]

\* One full block: b1 = AesEncrypt(b1); out = in xor b1.
FullBlock(s) ==
  [s EXCEPT !.b1 = @ + 1,
            !.out = @ \o <<[off |-> s.off, len |-> BlockSize, ks |-> s.b1 + 1,
                            xored |-> TRUE]>>,
            !.off = @ + BlockSize]

RECURSIVE Blocks(_, _)
Blocks(s, n) == IF n = 0 THEN s ELSE Blocks(FullBlock(s), n - 1)

\* Mutant: the tail reuses b1 without encrypting it again.
TailCopyNoEnc(s, res) ==
  [s EXCEPT !.out = @ \o <<[off |-> s.off, len |-> res, ks |-> s.b1,
                            xored |-> FALSE]>>,
            !.off = @ + res]

\* The res tail of __crypt_ofb: the input bytes are copied into a1, b1 is
\* encrypted, and a1 is copied out with no xor.
TailCopy(s, res) ==
  [s EXCEPT !.b1 = @ + 1,
            !.out = @ \o <<[off |-> s.off, len |-> res, ks |-> s.b1 + 1,
                            xored |-> FALSE]>>,
            !.off = @ + res]

\* The res tail of experimental::cryptOfb: a1 = a1 xor b1 before the copy.
TailXor(s, res) ==
  [s EXCEPT !.b1 = @ + 1,
            !.out = @ \o <<[off |-> s.off, len |-> res, ks |-> s.b1 + 1,
                            xored |-> TRUE]>>,
            !.off = @ + res]

\* __crypt_ofb: b1 loaded from pIv, the block loop and the tail of the
\* nRounds branch (the three branches differ only in the round keys used),
\* then b1 stored back to pIv when OFB_MULTI_UPDATE is defined.
CryptOfb(len) ==
  LET s0 == [b1 |-> iv, out |-> out, off |-> off]
      s1 == Blocks(s0, len \div BlockSize)
      s2 == IF len % BlockSize # 0 THEN TailCopy(s1, len % BlockSize) ELSE s1
  IN [s2 EXCEPT !.b1 = IF MultiUpdate THEN @ ELSE iv]

\* experimental::cryptOfb: same loop, xored tail, pIv is const.
ExperimentalCryptOfb(len) ==
  LET s1 == Blocks([b1 |-> iv, out |-> out, off |-> off], len \div BlockSize)
      s2 == IF len % BlockSize # 0 THEN TailXor(s1, len % BlockSize) ELSE s1
  IN [s2 EXCEPT !.b1 = iv]

CallerMay(len) ==
  /\ calls < MaxCalls
  /\ CallerAligned => off % BlockSize = 0

\* EncryptOfb / DecryptOfb: the same transform on either direction.
Crypt(len) ==
  /\ CallerMay(len)
  /\ LET r == IF Experimental THEN ExperimentalCryptOfb(len) ELSE CryptOfb(len)
     IN /\ iv' = r.b1
        /\ out' = r.out
        /\ off' = r.off
  /\ calls' = calls + 1

EncryptOfb(len) == Crypt(len)

DecryptOfb(len) == Crypt(len)

Init ==
  /\ iv = 0
  /\ out = <<>>
  /\ off = 0
  /\ calls = 0

Next ==
  \/ \E len \in Lens : EncryptOfb(len)
  \/ \E len \in Lens : DecryptOfb(len)

Spec == Init /\ [][Next]_vars

(***************************************************************************)
(* Properties                                                              *)
(***************************************************************************)
TypeOK ==
  /\ iv \in Nat
  /\ \A k \in DOMAIN out :
       out[k] \in [off : Nat, len : 1..BlockSize, ks : Nat \ {0}, xored : BOOLEAN]
  /\ off \in Nat
  /\ calls \in 0..MaxCalls

(* OFB: every output byte is the input byte xored with the keystream;      *)
(* in particular the bytes of a final partial block (the res branch of     *)
(* __crypt_ofb).                                                           *)
OutputIsKeystreamXor ==
  \A k \in DOMAIN out : out[k].xored

(* Across successive calls on one IV buffer the keystream continues where  *)
(* the previous call stopped: the piece at byte offset o is combined with  *)
(* keystream block o \div 16 + 1, so no keystream block is used twice.     *)
KeystreamContinuous ==
  \A k \in DOMAIN out : out[k].ks = out[k].off \div BlockSize + 1
=============================================================================
