------------------------------ MODULE Sha512Avx ------------------------------
(***************************************************************************)
(* ShaUpdate512 of src/lib/arch/zen4/sha2_512_avx512.cc: an odd first      *)
(* chunk through process_buffer_avx (128-bit vectors, one chunk), then     *)
(* chunk pairs through process_buffer_avx2, whose two-chunk message        *)
(* schedule keeps chunk 0 in a 16-word ring ms[0..15] and chunk 1 linear   *)
(* in ms[16..95].                                                          *)
(*                                                                         *)
(* The data is symbolic.  A message word is [c, t]: W_t of chunk c.  A     *)
(* schedule entry is [c, t, k]: W_t + K_k.  A working variable holds       *)
(* [role, r, c, base]: the value the FIPS 180-4 compression of chunk c     *)
(* has in register A ("A") or E ("E") after round r, started from hash     *)
(* base (r < 0: loaded from the hash).  Every operation builds the tag of  *)
(* its result from the tags of its operands and yields a junk tag when the *)
(* operands are not the ones the standard combines; so a hash lane gets    *)
(* chunk c appended exactly when every round of c received its own inputs. *)
(***************************************************************************)
EXTENDS Integers, Sequences

CONSTANTS
  Ctxs,        \* digest contexts (each owns its pHash)
  Lens,        \* src_len values a caller passes, in bytes
  MaxChunks    \* chunks hashed per context, at most

ChunkSize == 128                 \* Sha512::cChunkSize
Names == <<"a", "b", "c", "d", "e", "f", "g", "h">>

JunkW == [c |-> -1, t |-> -1]
JunkK == [c |-> -1, t |-> -1, k |-> -1]
JunkV == [role |-> "junk", r |-> 0, c |-> -1, base |-> <<>>]

W(c, t) == [c |-> c, t |-> t]

\* A word plus the round constant K_k (_mm*_add_epi64 with a K vector).
AddK(w, k) == IF w.c >= 0 THEN [c |-> w.c, t |-> w.t, k |-> k] ELSE JunkK

\* K index of entry e of sha512_hash_constsx2: K0,K1,K0,K1,K2,K3,K2,K3,...
KIdxX2(e) == 2 * (e \div 4) + (e % 2)

(***************************************************************************)
(* Message schedule                                                        *)
(***************************************************************************)
\* W_{t+16} = sigma1(W_{t+14}) + W_{t+9} + sigma0(W_{t+1}) + W_t
Rec(w0, w1, w9, w14) ==
  IF /\ w0.c >= 0
     /\ w1 = W(w0.c, w0.t + 1)
     /\ w9 = W(w0.c, w0.t + 9)
     /\ w14 = W(w0.c, w0.t + 14)
  THEN W(w0.c, w0.t + 16)
  ELSE JunkW

\* sha512_update_x_avx2 (and its 128-bit inline copy), on one 128-bit lane
\* holding the pairs x[0] = [w0,w1] .. x[7] = [w14,w15]:
\* s0 = sigma0(alignr(x1, x0, 8)) + x0 + alignr(x5, x4, 8), s1 = sigma1(x7),
\* x[0] = s0 + s1, then rotate_x.
\* Mutant: x0 + x4 added without the alignr(x5, x4, 8).
UpdateLaneNoAlignr(x) ==
  Tail(x) \o <<<<Rec(x[1][1], x[1][2], x[5][1], x[8][1]),
                 Rec(x[1][2], x[2][1], x[5][2], x[8][2])>>>>

UpdateLane(x) ==
  Tail(x) \o <<<<Rec(x[1][1], x[1][2], x[5][2], x[8][1]),
                 Rec(x[1][2], x[2][1], x[6][1], x[8][2])>>>>

\* x is <<lane 0>> (__m128i) or <<lane 0, lane 1>> (__m256i).
sha512_update_x_avx2(x) ==
  IF Len(x) = 1 THEN <<UpdateLane(x[1])>> ELSE <<UpdateLane(x[1]), UpdateLane(x[2])>>

(***************************************************************************)
(* Rounds                                                                  *)
(***************************************************************************)
Loaded(role, j, H) == [role |-> role, r |-> -j, c |-> -1, base |-> H]

\* a = hash_256_0[0] .. d = hash_256_0[3], e = hash_256_1[0] .. h = ..[3]
LoadVars(H) ==
  [a |-> Loaded("A", 1, H), b |-> Loaded("A", 2, H),
   c |-> Loaded("A", 3, H), d |-> Loaded("A", 4, H),
   e |-> Loaded("E", 1, H), f |-> Loaded("E", 2, H),
   g |-> Loaded("E", 3, H), h |-> Loaded("E", 4, H)]

\* What argument j of the round r of chunk c must hold.
Expected(j, r, c, B) ==
  LET role == IF j <= 4 THEN "A" ELSE "E"
      rr   == r - (IF j <= 4 THEN j ELSE j - 4)
  IN [role |-> role, r |-> rr, c |-> IF rr < 0 THEN -1 ELSE c, base |-> B]

\* ShaRound(a, b, c, d, e, f, g, h, x): d += T1; h = T1 + T2.  p names the
\* variables passed, in order; x is the schedule entry.
ShaRound(v, p, x) ==
  LET r  == x.t
      B  == v[p[1]].base
      ok == /\ x.c >= 0 /\ x.k = x.t
            /\ \A j \in 1..8 : v[p[j]] = Expected(j, r, x.c, B)
  IN [v EXCEPT ![p[4]] = IF ok THEN [role |-> "E", r |-> r, c |-> x.c, base |-> B]
                                ELSE JunkV,
               ![p[8]] = IF ok THEN [role |-> "A", r |-> r, c |-> x.c, base |-> B]
                                ELSE JunkV]

\* The argument order of the i-th of 16 unrolled rounds: a..h rotated by i.
RotNames(i) == [j \in 1..8 |-> Names[((j - 1 - i) % 8) + 1]]

\* Two rounds, then t = h; h = f; f = d; d = b; b = t; t = g; g = e;
\* e = c; c = a; a = t.
TwoRounds(v, m0, m1) ==
  LET v2 == ShaRound(ShaRound(v, RotNames(0), m0), RotNames(1), m1)
  IN [a |-> v2.g, b |-> v2.h, c |-> v2.a, d |-> v2.b,
      e |-> v2.c, f |-> v2.d, g |-> v2.e, h |-> v2.f]

\* The 16 unrolled ShaRound calls on ms[base .. base + 15]; acc.i counts
\* the calls made.
RECURSIVE Rounds(_, _, _)
Rounds(acc, ms, base) ==
  IF acc.i = 16 THEN acc.v
  ELSE Rounds([v |-> ShaRound(acc.v, RotNames(acc.i), ms[base + acc.i]),
               i |-> acc.i + 1], ms, base)

Rounds16(v, ms, base) == Rounds([v |-> v, i |-> 0], ms, base)

\* hash += _mm256_set_epi64x(d, c, b, a) and (h, g, f, e): lane i gets the
\* value of Names[i], which must be round 79's A, B, C, D, E, F, G, H.
\* Mutant: hash_256_1 stored to state and hash_256_0 to state + 4.
AddStateSwapped(H, v) ==
  [i \in 1..8 |->
     LET t == v[Names[((i + 3) % 8) + 1]]
     IN IF t.c >= 0 /\ t = Expected(i, 80, t.c, H)
        THEN Append(H[i], t.c) ELSE Append(H[i], -1)]

AddState(H, v) ==
  [i \in 1..8 |->
     LET t == v[Names[i]]
     IN IF t.c >= 0 /\ t = Expected(i, 80, t.c, H)
        THEN Append(H[i], t.c) ELSE Append(H[i], -1)]

(***************************************************************************)
(* process_buffer_avx: one chunk c with 128-bit vectors (one lane)         *)
(***************************************************************************)
\* The eight word pairs of chunk c, as loaded into one lane.
LaneWords(c) == [j \in 1..8 |-> <<W(c, 2 * j - 2), W(c, 2 * j - 1)>>]

\* msg_vect[j] = words 2j, 2j+1; message_sch[2j..2j+1] = them + K.
AvxLoad(c) ==
  [x  |-> <<LaneWords(c)>>,
   ms |-> [i \in 0..79 |-> IF i < 16 THEN AddK(W(c, i), i) ELSE JunkK]]

\* One (j, k) turn: extend x, y = x[7] + cRoundConstants[k512_idx], two
\* rounds on message_sch[pos..pos+1], rename, store y there, k512_idx += 2.
AvxTurn(acc, pos) ==
  LET x2 == sha512_update_x_avx2(acc.x)
  IN [acc EXCEPT
        !.v  = TwoRounds(acc.v, acc.ms[pos], acc.ms[pos + 1]),
        !.x  = x2,
        !.ms = [acc.ms EXCEPT ![pos]     = AddK(x2[1][8][1], acc.k),
                              ![pos + 1] = AddK(x2[1][8][2], acc.k + 1)],
        !.k  = acc.k + 2]

\* for j in 0..3, for k in 0..7: k512_idx runs 16, 18, .., 78; the turn
\* with index k512_idx works on message_sch[k512_idx % 16 ..].
RECURSIVE AvxTurns(_)
AvxTurns(acc) ==
  IF acc.k = 80 THEN acc ELSE AvxTurns(AvxTurn(acc, acc.k % 16))

process_buffer_avx(H, c) ==
  LET ld  == AvxLoad(c)
      fin == AvxTurns([v |-> LoadVars(H), x |-> ld.x, ms |-> ld.ms, k |-> 16])
  IN AddState(H, Rounds16(fin.v, fin.ms, 0))

(***************************************************************************)
(* process_buffer_avx2: chunk pairs c, c+1 with 256-bit vectors            *)
(***************************************************************************)
\* load_data: x[i] lane l = words 2i, 2i+1 of chunk c + l; the sums with
\* sha512_hash_constsx2[4i..4i+3] go to ms[16 + 2i..] (lane 1) and
\* ms[2i..] (lane 0).  Other entries of ms keep what the last pair left.
load_data(ms, c) ==
  LET x   == <<LaneWords(c), LaneWords(c + 1)>>
      sum(i, l, j) == AddK(x[l + 1][i + 1][j + 1], KIdxX2(4 * i + 2 * l + j))
  IN [x  |-> x,
      ms |-> [n \in DOMAIN ms |->
                IF n < 16 THEN sum(n \div 2, 0, n % 2)
                ELSE IF n < 32 THEN sum((n - 16) \div 2, 1, n % 2)
                ELSE ms[n]]]

\* One (i, j) turn of the first loop of extendMsgandCalcRound: two rounds
\* of chunk 0 on ms[pos..pos+1], extend x, y = x[7] + constsx2[k512_idx],
\* lane 1 stored at ms[16 + 16i + pos], lane 0 at ms[pos]; k512_idx += 4;
\* rename.
ExtTurn(acc, i, pos) ==
  LET x2 == sha512_update_x_avx2(acc.x)
      y(l, j) == AddK(x2[l + 1][8][j + 1], KIdxX2(acc.k + 2 * l + j))
  IN [acc EXCEPT
        !.v  = TwoRounds(acc.v, acc.ms[pos], acc.ms[pos + 1]),
        !.x  = x2,
        !.ms = [acc.ms EXCEPT ![16 + 16 * i + pos]     = y(1, 0),
                              ![16 + 16 * i + pos + 1] = y(1, 1),
                              ![pos]                   = y(0, 0),
                              ![pos + 1]               = y(0, 1)],
        !.k  = acc.k + 4]

\* for i in 1..4, for j in 0..7: turn n = 8(i - 1) + j has k512_idx
\* = 32 + 4n.
RECURSIVE ExtTurns(_)
ExtTurns(acc) ==
  IF acc.k = 160 THEN acc
  ELSE LET n == (acc.k - 32) \div 4
       IN ExtTurns(ExtTurn(acc, 1 + n \div 8, 2 * (n % 8)))

\* Chunk 1: 80 rounds on ms[16..95], 16 per unrolled block.
RECURSIVE Blocks(_, _)
Blocks(acc, ms) ==
  IF acc.b = 6 THEN acc.v
  ELSE Blocks([v |-> Rounds16(acc.v, ms, 16 * acc.b), b |-> acc.b + 1], ms)

Blocks16(v, ms) == Blocks([v |-> v, b |-> 1], ms)

\* Rounds 0-63 and 64-79 of chunk 0, add into the hash, reload, the 80
\* rounds of chunk 1, add.  Returns the hash registers and ms.
extendMsgandCalcRound(H, x, ms) ==
  LET fin == ExtTurns([v |-> LoadVars(H), x |-> x, ms |-> ms, k |-> 32])
      H1  == AddState(H, Rounds16(fin.v, fin.ms, 0))
  IN [H |-> AddState(H1, Blocks16(LoadVars(H1), fin.ms)), ms |-> fin.ms]

\* for (i = 0; i < num_chunks; i += 2) { load_data; extendMsgandCalcRound }
RECURSIVE Pairs(_, _, _)
Pairs(acc, c, num) ==
  IF acc.i >= num THEN acc.H
  ELSE LET ld == load_data(acc.ms, c + acc.i)
           r  == extendMsgandCalcRound(acc.H, ld.x, ld.ms)
       IN Pairs([H |-> r.H, ms |-> r.ms, i |-> acc.i + 2], c, num)

\* message_sch_1 is uninitialised; the result is stored to state.
process_buffer_avx2(H, c, num) ==
  Pairs([H |-> H, ms |-> [n \in 0..95 |-> JunkK], i |-> 0], c, num)

\* ShaUpdate512(pHash, pSrc, src_len): the odd chunk first, then pairs.
\* Chunks are numbered from c, the first chunk of pSrc.
Update512(H, c, len) ==
  LET num == len \div ChunkSize
  IN IF num % 2 = 1
     THEN process_buffer_avx2(process_buffer_avx(H, c), c + 1, num - 1)
     ELSE process_buffer_avx2(H, c, num)

(***************************************************************************)
(* Callers: each context hashes its stream through successive calls.       *)
(***************************************************************************)
VARIABLES
  hash,     \* per context: pHash, each lane the chunks compressed into it
  hashed    \* per context: chunks of its stream passed so far

vars == <<hash, hashed>>

Init ==
  /\ hash = [d \in Ctxs |-> [i \in 1..8 |-> <<>>]]
  /\ hashed = [d \in Ctxs |-> 0]

ShaUpdate512(d, len) ==
  /\ hashed[d] + len \div ChunkSize <= MaxChunks
  /\ hash' = [hash EXCEPT ![d] = Update512(hash[d], hashed[d], len)]
  /\ hashed' = [hashed EXCEPT ![d] = hashed[d] + len \div ChunkSize]

Next == \E d \in Ctxs, len \in Lens : ShaUpdate512(d, len)

Spec == Init /\ [][Next]_vars

(***************************************************************************)
(* Properties                                                              *)
(***************************************************************************)
TypeOK ==
  /\ hashed \in [Ctxs -> 0..MaxChunks]
  /\ hash \in [Ctxs -> [1..8 -> Seq(0..MaxChunks - 1)]]

(* Every lane of pHash is the FIPS 180-4 chained compression of the        *)
(* stream's chunks in order: across calls, the odd-chunk path, the pair    *)
(* path with its ring and linear schedule areas, the register renaming of  *)
(* the unrolled rounds and the lane order of the final additions.          *)
HashIsSequential ==
  \A d \in Ctxs : \A i \in 1..8 : hash[d][i] = [j \in 1..hashed[d] |-> j - 1]
=============================================================================
