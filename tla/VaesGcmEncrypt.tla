--------------------------- MODULE VaesGcmEncrypt ---------------------------
(***************************************************************************)
(* The AVX-512/VAES GCM encrypt path of src/lib/arch/zen4/gcm/             *)
(* vaes_gcm_encrypt.cc: one update call (encryptGcm128/192/256) runs       *)
(* gcmBlk_512_enc, which cascades over the message in windows of 64, 32,   *)
(* 16, 8 and 4 blocks (for Lanes = 4 blocks per 512-bit register), then    *)
(* single blocks, then a masked partial block.                             *)
(*                                                                         *)
(* Data is abstracted away.  What is kept is                               *)
(*  - the counter registers c1..c4 (lane-0 counter of each register), the  *)
(*    32-bit lane arithmetic on them (here CtrBits wide), and which        *)
(*    counter value encrypts which byte range of the stream;               *)
(*  - the GHASH accumulator, kept symbolically: for every block folded in  *)
(*    so far, the power of H it is multiplied by.  GHASH is linear, so     *)
(*    the accumulator equals the sequential fold exactly when these        *)
(*    powers (and the folded byte ranges) are those of the sequential      *)
(*    fold; the bit-level multiply and reduction are in GhashKaratsuba.    *)
(***************************************************************************)
EXTENDS Integers, Sequences, FiniteSets

SE == INSTANCE SequencesExt

CONSTANTS
  Lanes,        \* 128-bit blocks per 512-bit register (4 in the code)
  CtrBits,      \* width of the incremented counter word (32 in the code)
  Lens,         \* message lengths (bytes) a caller may pass to one update
  MaxCalls,     \* bound on the number of update calls
  CallerLimit,  \* most 16-byte blocks a caller submits under one nonce
  CallerAligned \* TRUE: the caller never updates again after a partial block

ASSUME Lanes \in Nat \ {0}
ASSUME CtrBits \in Nat \ {0}
ASSUME Lens \subseteq Nat
ASSUME MaxCalls \in Nat
ASSUME CallerLimit \in Nat
ASSUME CallerAligned \in BOOLEAN

BlockSize == 16                 \* Rijndael::cBlockSize
CtrMod == 2^CtrBits             \* alcp_add_epi32 wraps the counter word
J0 == 1                         \* counter word of J0, which masks the tag
FirstCtr == 2                   \* inc32(J0): counter of the first data block

VARIABLES
  counter,   \* gcmCtx->m_counter_128 (its counter word)
  gHash,     \* gcmCtx->m_gHash_128, symbolically: Seq of [off, len, exp]
  pieces,    \* keystream uses so far: Seq of [off, len, ctr]
  off,       \* bytes processed so far under this key and nonce
  calls,     \* update calls so far (updateCounter)
  finalized, \* the caller has finished the message
  nRounds    \* AES rounds of the context's key (10, 12, 14), fixed

vars == <<counter, gHash, pieces, off, calls, finalized, nRounds>>

(***************************************************************************)
(* The working state of one gcmBlk_512_enc call: its local counter         *)
(* registers c (lane-0 counter words of c1..c4), the blocks still to do,   *)
(* the stream offset of the next block and the outputs.                    *)
(***************************************************************************)
\* Mutant: a 64-bit lane add, carrying out of the counter word.
Add64(x, k) == x + k

Add32(x, k) == (x + k) % CtrMod

\* Encrypt one register-group: register r supplies Lanes blocks whose
\* counters are the lanes r, r+1, .., r+Lanes-1 (swap_ctr, AesEnc, xor, store).
Enc(s, regs) ==
  LET n == Len(regs) * Lanes
  IN [s EXCEPT
        !.pieces = @ \o [j \in 1..n |->
                          [off |-> s.off + (j - 1) * BlockSize,
                           len |-> BlockSize,
                           rounds |-> s.aes,
                           ctr |-> Add32(regs[(j - 1) \div Lanes + 1],
                                         (j - 1) % Lanes)]],
        !.off = @ + n * BlockSize]

\* hashSubkeyTableStack[t] holds H^(Lanes*t+Lanes) .. H^(Lanes*t+1), lane 0
\* the highest (getPrecomputedTable, outside src/; spec 4.4's table H^1..H^k).
TablePower(t, lane) == Lanes * t + Lanes - lane

\* gMulR and get_aggregated_karatsuba_components_first/_last (outside src/)
\* multiply the i-th of their n registers by the (n+1-i)-th table argument:
\* the newest register meets the first table given.
HelperPower(tab, i, lane) == TablePower(tab[Len(tab) + 1 - i], lane)

\* Aggregated fold of the last blocks by helper calls whose table arguments
\* are tabs[1], tabs[2], .. (the hashSubkeyTableStack[..] of each call site,
\* in argument order), each call taking the next Len(tabs[g]) registers,
\* with one reduction at the end (getGhash, or inside gMulR).  The old
\* accumulator is xored into the first block.
FoldAgg(s, tabs) ==
  LET regs == SE!FlattenSeq([g \in DOMAIN tabs |-> [i \in DOMAIN tabs[g] |-> <<g, i>>]])
      m == Len(regs) * Lanes
      old == Len(s.gHash)
      new == SubSeq(s.pieces, Len(s.pieces) - m + 1, Len(s.pieces))
      pow(j) == LET r == regs[(j - 1) \div Lanes + 1]
                IN HelperPower(tabs[r[1]], r[2], (j - 1) % Lanes)
  IN [s EXCEPT !.gHash =
        [k \in 1..old |-> [@[k] EXCEPT !.exp = @ + m]]
        \o [j \in 1..m |-> [off |-> new[j].off, len |-> new[j].len,
                            exp |-> pow(j)]]]

\* Simple fold of the last piece: gHash = gMul(gHash xor reverse(a1), H).
FoldOne(s) ==
  LET p == s.pieces[Len(s.pieces)]
  IN [s EXCEPT !.gHash = [k \in 1..Len(@) |-> [@[k] EXCEPT !.exp = @ + 1]]
                          \o <<[off |-> p.off, len |-> p.len, exp |-> 1]>>]

BumpC(s, ks, k) == [s EXCEPT !.c = [i \in 1..4 |-> IF i \in ks THEN Add32(@[i], k) ELSE @[i]]]

Regs(s, ks) == [i \in 1..Len(ks) |-> s.c[ks[i]]]

\* Mutant: the first helper call of the window given the last call's tables.
Window8xTablesRepeated(s) ==
  LET s1 == BumpC(Enc(s, Regs(s, <<1, 2, 3, 4>>)), {1, 2, 3, 4}, 4 * Lanes)
      s2 == BumpC(Enc(s1, Regs(s1, <<1, 2, 3, 4>>)), {1, 2, 3, 4}, 4 * Lanes)
  IN [FoldAgg(s2, <<<<0, 1, 2, 3>>, <<0, 1, 2, 3>>>>) EXCEPT !.blocks = @ - 8 * Lanes]

\* One 32-block window: two register groups encrypted, then one reduction.
Window8x(s) ==
  LET s1 == BumpC(Enc(s, Regs(s, <<1, 2, 3, 4>>)), {1, 2, 3, 4}, 4 * Lanes)
      s2 == BumpC(Enc(s1, Regs(s1, <<1, 2, 3, 4>>)), {1, 2, 3, 4}, 4 * Lanes)
  IN [FoldAgg(s2, <<<<4, 5, 6, 7>>, <<0, 1, 2, 3>>>>) EXCEPT !.blocks = @ - 8 * Lanes]

\* for (; blocks >= blockCount_8x512_unroll_2; ...): two windows per turn.
RECURSIVE Loop16x(_)
Loop16x(s) ==
  IF s.blocks >= 16 * Lanes THEN Loop16x(Window8x(Window8x(s))) ELSE s

Step8x(s) == IF s.blocks >= 8 * Lanes THEN Window8x(s) ELSE s

Step4x(s) ==
  IF s.blocks >= 4 * Lanes
  THEN LET s1 == FoldAgg(Enc(s, Regs(s, <<1, 2, 3, 4>>)), <<<<0, 1, 2, 3>>>>)
       IN [BumpC(s1, {1, 2}, 4 * Lanes) EXCEPT !.blocks = @ - 4 * Lanes]
  ELSE s

\* Mutant: the 8-block step passes its two tables in the other order.
Step2xTablesSwapped(s) ==
  IF s.blocks >= 2 * Lanes
  THEN LET s1 == FoldAgg(Enc(s, Regs(s, <<1, 2>>)), <<<<1, 0>>>>)
       IN [BumpC(s1, {1}, 2 * Lanes) EXCEPT !.blocks = @ - 2 * Lanes]
  ELSE s

\* 8 blocks: c1, c2 used; only c1 advanced.
Step2x(s) ==
  IF s.blocks >= 2 * Lanes
  THEN LET s1 == FoldAgg(Enc(s, Regs(s, <<1, 2>>)), <<<<0, 1>>>>)
       IN [BumpC(s1, {1}, 2 * Lanes) EXCEPT !.blocks = @ - 2 * Lanes]
  ELSE s

\* 4 blocks: c1 used and advanced.
Step1x(s) ==
  IF s.blocks >= Lanes
  THEN LET s1 == FoldAgg(Enc(s, Regs(s, <<1>>)), <<<<0>>>>)
       IN [BumpC(s1, {1}, Lanes) EXCEPT !.blocks = @ - Lanes]
  ELSE s

\* One block at the low lane c1_128 (the 128-bit residual and tail paths),
\* through AesEncrypt with the context's nRounds, not the template kernels.
EncOne(s, len) ==
  [s EXCEPT !.pieces = @ \o <<[off |-> s.off, len |-> len, rounds |-> s.nr, ctr |-> s.c[1]]>>,
            !.off = @ + len]

\* for (; blocks != 0; blocks--): one block, then c1_128 += one_lo_128.
RECURSIVE Residual(_)
Residual(s) ==
  IF s.blocks = 0 THEN s
  ELSE LET s1 == FoldOne(EncOne(s, BlockSize))
       IN Residual([BumpC(s1, {1}, 1) EXCEPT !.blocks = @ - 1])

\* if (remBytes): masked load/xor/store, fold of the zero-padded block;
\* c1_128 is not incremented.
Partial(s) == IF s.rem = 0 THEN s ELSE FoldOne(EncOne(s, s.rem))

\* The lane-0 counters of c1..c4 after broadcast of m_counter_128 and the
\* onehi/one_x/two_x additions.
\* Mutant: two_x and one_x exchanged, so c2 starts at 2 * Lanes and c3 at
\* Lanes; the counters stay distinct but land on the wrong blocks.
StartRegsSwapped(ctr) == [i \in 1..4 |-> Add32(ctr, <<0, 2, 1, 3>>[i] * Lanes)]

StartRegs(ctr) == [i \in 1..4 |-> Add32(ctr, (i - 1) * Lanes)]

\* aes: the rounds of the AesEncryptNoLoad_* kernels the entry point
\* instantiates the template with.
gcmBlk_512_enc(blocks, rem, aes) ==
  LET s0 == [c |-> StartRegs(counter), blocks |-> blocks, rem |-> rem, aes |-> aes,
             nr |-> nRounds,
             off |-> off, pieces |-> pieces, gHash |-> gHash]
  IN Partial(Residual(Step1x(Step2x(Step4x(Step8x(Loop16x(s0)))))))

(***************************************************************************)
(* Environment: what a caller of the update entry point may do.            *)
(***************************************************************************)
TotalBlocks(o) == (o + BlockSize - 1) \div BlockSize

CallerMay(len) ==
  /\ ~finalized
  /\ calls < MaxCalls
  /\ TotalBlocks(off + len) <= CallerLimit
  /\ CallerAligned => off % BlockSize = 0

(***************************************************************************)
(* encryptGcm128/192/256: blocks = len / 16, remBytes = len - 16 * blocks, *)
(* then gcmBlk_512_enc; the context keeps c1_128 and the low gHash lane.   *)
(***************************************************************************)
EncryptGcm(len, aes) ==
  /\ CallerMay(len)
  /\ LET r == gcmBlk_512_enc(len \div BlockSize, len % BlockSize, aes)
     IN /\ counter' = r.c[1]
        /\ gHash' = r.gHash
        /\ pieces' = r.pieces
        /\ off' = r.off
  /\ calls' = calls + 1
  /\ UNCHANGED <<finalized, nRounds>>

\* The three entry points differ only in the kernels they instantiate.
encryptGcm128(len) == EncryptGcm(len, 10)

\* Mutant: the 192-bit entry point instantiated with the Rounds10 kernels.
encryptGcm192Rounds10(len) == EncryptGcm(len, 10)

encryptGcm192(len) == EncryptGcm(len, 12)

encryptGcm256(len) == EncryptGcm(len, 14)

\* The caller ends the message (tag computation is outside this file).
Finish ==
  /\ ~finalized
  /\ finalized' = TRUE
  /\ UNCHANGED <<counter, gHash, pieces, off, calls, nRounds>>

\* After init: counter word at inc32(J0), empty accumulator (no AAD here).
Init ==
  /\ counter = FirstCtr
  /\ gHash = <<>>
  /\ pieces = <<>>
  /\ off = 0
  /\ calls = 0
  /\ finalized = FALSE
  /\ nRounds \in {10, 12, 14}

\* The cipher layer (outside src/) calls the entry point of the key size.
Next ==
  \/ \E len \in Lens :
       \/ nRounds = 10 /\ encryptGcm128(len)
       \/ nRounds = 12 /\ encryptGcm192(len)
       \/ nRounds = 14 /\ encryptGcm256(len)
  \/ Finish

Spec == Init /\ [][Next]_vars

(***************************************************************************)
(* Properties                                                              *)
(***************************************************************************)
Piece == [off : Nat, len : 1..BlockSize, rounds : {10, 12, 14}, ctr : 0..(CtrMod - 1)]

TypeOK ==
  /\ counter \in 0..(CtrMod - 1)
  /\ \A k \in DOMAIN gHash : gHash[k].exp \in Nat \ {0}
  /\ \A k \in DOMAIN pieces : pieces[k] \in Piece
  /\ off \in Nat
  /\ calls \in 0..MaxCalls
  /\ finalized \in BOOLEAN
  /\ nRounds \in {10, 12, 14}

(* Counter uniqueness (spec 3, 4.3): across all update calls and all the   *)
(* windows, registers and lanes of gcmBlk_512_enc, no counter value        *)
(* encrypts two different parts of the stream, and none equals J0, whose   *)
(* keystream masks the tag.                                                *)
KeystreamNeverReused ==
  \A i, j \in DOMAIN pieces :
    /\ pieces[i].ctr # J0
    /\ i # j => pieces[i].ctr # pieces[j].ctr

(* Refinement: the update calls implement the GCM stream of GcmStream.     *)
(* Every call cuts the stream where the previous one stopped; every byte   *)
(* is xored with the keystream, under the context's key (the entry point's *)
(* AES kernels), of the counter block the standard assigns to its position *)
(* (not merely some unused one); and the aggregated folding of the         *)
(* 32/16/8/4-block windows with the table powers, plus the single-block    *)
(* and partial folds, leaves gHash equal to sequential GHASH over the      *)
(* whole stream.                                                           *)
GS == INSTANCE GcmStream
        WITH ks <- pieces, ghash <- gHash, done <- off, ended <- finalized,
             rounds <- nRounds

GcmStreamSpec == GS!Spec
=============================================================================
