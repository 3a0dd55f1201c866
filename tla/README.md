# TLA+ models of the AOCL-Crypto sources

This directory holds TLA+ models of the control logic in `src/`. TLC checks
them. Every module is translated from the code it names. `PROJECT.json` maps
each definition to the source lines it models. It also lists the runs, the
mutants that show each property can fail, the findings and the hazards.

## The system and its parts

`src/` is a slice of AOCL-Crypto. Its parts fall into the following groups.

### Cipher kernels

* **VAES-512 GCM encrypt** (`src/lib/arch/zen4/gcm/vaes_gcm_encrypt.cc`).
  * One update call (`encryptGcm128/192/256`) runs `gcmBlk_512_enc` once.
  * The context holds:
    * the counter block `m_counter_128`;
    * the GHASH accumulator `m_gHash_128`;
    * the hash subkey and its precomputed power table.
  * A call encrypts the message in a cascade:
    * a loop of 64 blocks, done as two 32-block windows per turn;
    * single steps of 32, 16, 8 and 4 blocks;
    * a loop of single 128-bit blocks;
    * one masked partial block.
  * Four 512-bit counter registers `c1..c4` hold 16 counters. Only some of
    them are advanced in the smaller steps.
  * Each window is folded into GHASH with an aggregated Karatsuba multiply.
    It uses powers of H from the table.
  * At the end the low counter lane and the low GHASH lane are written back
    to the context.
* **AES-NI OFB** (`src/lib/arch/avx2/aesni_ofb.cc`).
  * `EncryptOfb` and `DecryptOfb` call `__crypt_ofb`, or
    `experimental::cryptOfb` under `USE_EXPERIMENTAL`.
  * The feedback register `b1` is encrypted once per block.
  * A partial tail gets one more encryption.
  * Under `OFB_MULTI_UPDATE`, `b1` is stored back to the caller's IV buffer,
    so that a later call continues the keystream.

### Hashes

* **SHA-512 with AVX2 and AVX-512** (`src/lib/arch/zen4/sha2_512_avx512.cc`).
  * `ShaUpdate512` takes an odd first chunk through one path. It then takes
    chunk pairs through a two-chunk message schedule.
  * The schedule keeps the words of one chunk in a 16-word ring and those of
    the other in a linear area of the same `ms` array.

### MACs

* **CMAC through the C API** (`src/lib/capi/c_mac.cc`,
  `src/lib/include/alcp/mac/cmac_build.hh`).
  * A handle's context is built in place by `alcp_mac_request`.
  * Then come `init`, `update`, `finalize`, `reset`, `copy` and `finish`.
    `finish` deletes the Cmac object.
  * The Cmac state machine itself is not under `src/`. Its contract is given
    by `src/lib/mac/tests/cmac_unit_test.cc`.
* **The CMAC example** (`src/examples/mac/cmac.c`). `run_cmac` is a client
  of that API. It mallocs the context and calls request, init, update,
  finalize and finish, then frees the context. After each call it returns
  the first error status. The model runs it on its own handle, interleaved
  with other handles of the same application that share the heap.
* **Poly1305** (`src/lib/mac/poly1305.cc`).
  * The object dispatches every call on the CPU features, which are queried
    again on each call. The targets are the AVX-512 kernels or a reference
    implementation, which is created in the constructor.
  * The copy constructor copies nothing.

### Randomness

* **System RNG** (`src/lib/rng/system_rng.cc`).
  * `SystemRngImpl::randomize` reads `/dev/urandom` through a
    function-static descriptor.
  * The descriptor is opened lazily and without a lock.
  * The read loop makes up to 10 `read` calls, adding each result to a
    `size_t`.
  * On other non-Windows builds the same function calls `getrandom` once,
    then retries up to 10 times, with no descriptor.
  * Under WIN32 it acquires a CryptoAPI provider, calls `CryptGenRandom`
    once, and releases the provider.
  * `setPredictionResistance` stores a flag of the `SystemRng` object.

### C API and compatibility layers

* **IPP compatibility for AES** (`src/lib/compat/ipp/...`).
  * `alcp_encdecAES` lazily builds an ALCP cipher handle inside the IPP
    state, on the first call only.
  * It frees the handle on success, and does not free it on an encrypt
    error.
  * The CCM init path frees or forgets the handle.

### Not modelled

* **EC C API** (`src/lib/capi/c_ec.cc`). Each function checks its pointers
  and forwards the call to `ec::Context` and the EC object. Both are outside
  `src/`, and no test or comment in the repository states the life cycle
  they follow, so there is nothing of this file's own to check beyond the
  null checks.

* **Support code.**
  * `cpuid.hh`: declarations only.
  * `chacha20.hh`: declarations only.
  * `aes.hh`: key and IV holders.
  * `rsaerror.cc`: status constructors.
  * `alcp.h`: version macros.
* **Tests, examples and benchmarks** (`src/tests`, `src/bench`,
  `*_unit_test.cc`, and the rest of `src/examples`): harness code, used here
  only as a statement of contracts. Of `cmac.c`, `run_cmac` is modelled.
  `demo_cmac`, `validateMAC`, `compareArray` and the printing helpers only
  compare and print byte buffers, which the models abstract away.

## Modules

| Module | Models | State | Actions |
|---|---|---|---|
| `GcmStream` | the GCM stream of SP 800-38D / spec 4.3-4.5 (abstract) | `ks` (keystream use per byte range), `ghash`, `done`, `ended`, `rounds` (the key) | `Update(len)`, `Finish` |
| `VaesGcmEncrypt` | `gcmBlk_512_enc`, `encryptGcm*` | `counter` (`m_counter_128`), `gHash` (`m_gHash_128`, symbolic), `pieces` (keystream use per byte range and AES kernel), `off`, `calls`, `finalized`, `nRounds` (the key's rounds) | `encryptGcm128/192/256(len)` (through `EncryptGcm(len, aes)`): the whole update as one step; `Finish` |
| `AesniOfb` | `__crypt_ofb`, `experimental::cryptOfb`, `EncryptOfb`, `DecryptOfb` | `iv` (keystream index in the caller's IV buffer), `out` (output pieces), `off`, `calls` | `EncryptOfb(len)`, `DecryptOfb(len)` |
| `SystemRng` | `SystemRngImpl::randomize`, `SystemRng::randomize` and `readRandom` | `engine` (the build), `m_fd`, `opens`, `held` (unreleased CryptoAPI providers), `m_prediction_resistance`, and per thread `pc`, `len`, `out`, `i`, `written`, `ret` | `Call`, `CheckFd`, `OpenOk`, `OpenFail`, `GetrandomFirst`, `ReadTurn`, `GetrandomTurn`, `CryptRandomize`, `Finish`, `SetPredictionResistance` |
| `MacHandle` | the per-handle contract of the MAC C API for CMAC (abstract) | `phase` per handle, `ret` (last call and status) | `Request`, `KeyInit`, `Update`, `Finalize`, `Reset`, `Finish`, `Copy` |
| `MacCapi` | `alcp_mac_*` in `c_mac.cc`, the `cmac_build.hh` wrapper table, `CmacBuilder::build`, `__cmac_build_with_copy` | `ctx` per handle (`raw`/`built`/`destroyed`, `m_mac`), `heap` (Cmac objects: live, state), `ret` | one action per `alcp_mac_*` call |
| `CmacClient` | `run_cmac` of `examples/mac/cmac.c`, composed with `MacCapi` | `MacCapi`'s state, plus `cpc` (the statement of `run_cmac`), `chCtx` (`handle.ch_context`: null, malloc'd, freed), `keyOk`, `err` | `run_cmac_malloc`, `_request`, `_init`, `_update`, `_finalize`, `_finish`, interleaved with `ApiCalls` on the other handles |
| `Poly1305Dispatch` | `Poly1305<feature>` constructor, copy constructor, destructor, `init`, `update`, `reset`, `finalize` | `cpu` (AVX-512 F/DQ/BW flags), per object `exists`, `feat`, `impl` (`poly1305_impl` non-null), `origin`, `keyEngine`, `lastEngine`; `crashed` | `Construct`, `CopyConstruct`, `Destroy`, `InitKey`, `Update`, `Reset`, `Finalize` |
| `Sha512Avx` | `ShaUpdate512`, `process_buffer_avx`, `process_buffer_avx2`, `load_data`, `extendMsgandCalcRound`, `sha512_update_x_avx2` | per context `hash` (each of the 8 lanes of `pHash` as the chunks compressed into it), `hashed` (chunks passed so far) | `ShaUpdate512(d, len)`: the whole call, both paths, as one step |
| `IppAesWrapper` | `alcp_encdecAES`, `ippsAES_CCMInit` | `ch` (`handle.ch_context`), `live` (malloc'd blocks), `ctxMode`, `ctxIv`, `arg`, `used`, `ret` | `alcp_encdecAES(mode, iv)`, `CCMInitKey`, `CCMInitNoKey` |

### How the data is abstracted

**GCM.** The model keeps control and counters exactly. It drops the AES and
carry-less multiply arithmetic.

* A counter register is kept as its lane-0 counter word. Lane k holds that
  word plus k.
* Counter words are added modulo `2^CtrBits`. This is `alcp_add_epi32` on
  the 32-bit word, with the width as a parameter.
* The GHASH accumulator is a sequence of records `[off, len, exp]`: the byte
  range of each folded block and the power of H it is multiplied by. GHASH is
  linear, so two computations give the same accumulator for every key and
  message exactly when these sequences are equal.
* `FoldAgg` takes, for each helper call of a window, the table entries the
  call site passes (`hashSubkeyTableStack[4..7]` then `[0..3]` for the
  32-block windows, `[0..3]`, `[0, 1]` and `[0]` for the 16-, 8- and 4-block
  steps). A wrong or swapped index at one call site therefore changes the
  powers, and the refinement rejects it.
* Two facts come from outside `src/` and are stated from spec 4.4 (modelled
  from the specification, not the code). First, the table layout
  (`TablePower`): entry t holds H^(4t+4) .. H^(4t+1). Second, the helpers'
  pairing (`HelperPower`): the i-th of n registers meets the (n+1-i)-th
  table argument. These are the only layout and pairing under which the
  1-, 2- and 4-register call sites are all correct.
* The residual and partial blocks go through `AesEncrypt` with the
  context's `nRounds`. The vector windows go through the entry point's
  template kernels, and each piece records which one it used.
* `GcmStream` is the abstract specification. `VaesGcmEncrypt` implements it
  under the mapping `ks <- pieces`, `ghash <- gHash`, `done <- off`,
  `ended <- finalized`. The abstract step cuts the bytes of a call at
  16-byte boundaries, and gives each part the counter `inc32^(b+1)(J0)` of
  its block b. `KeystreamNeverReused` only says that counters are distinct.
  The refinement also says that they are the standard ones, which is what
  makes the ciphertext interoperate.
* The key size is chosen in `Init` (`nRounds`). The cipher layer outside
  `src/` calls the entry point of that size. Each entry point instantiates
  `gcmBlk_512_enc` with its own AES kernels, and every piece records which
  kernel encrypted it. The refinement requires that kernel to be the one
  for the key's rounds.

**OFB.** The feedback register after k encryptions of IV0 is written as the
number k. Each output piece records:

* its byte range;
* the keystream block it used;
* whether the xor happened.

**SystemRng.**

* Each step of `randomize` that touches the shared `m_fd` is an action of its
  own: the test, the open, each read, and the exit. Threads interleave
  between these steps.
* `size_t` is `SizeBits` wide.
* `read()` returns -1, 0 or 1..delta. A read on descriptor -1 returns -1.
* The build is chosen in `Init` (`engine`) and never changes. The getrandom
  build skips the descriptor steps. Its first `getrandom` call is
  `GetrandomFirst`, and its retries are `GetrandomTurn`.
* The WIN32 branch touches nothing shared: its provider handle is local to
  the call. So `CryptRandomize` is the whole call as one step, with its
  three outcomes.
* `m_prediction_resistance` is declared in a header that is not in the
  repository, and neither constructor sets it. `Init` therefore leaves it
  as either value.

**MacCapi.**

* `heap` is a pool of `MaxObjs` blocks. `new Cmac` lands on any free one,
  so the model sees reuse of freed memory.
* `Cmac` is not under `src/`. Its states (`nokey`, `keyed`, `final`) and
  statuses come from the tests in `cmac_unit_test.cc`.
* The other handles' caller follows the order of `examples/mac/cmac.c`:
  * `request` and `copy` only target a handle that is raw or finished;
  * every other call only goes to a built handle.
  The API checks only for null pointers, so it cannot detect any other
  order.
* `MacHandle` is the abstract specification. `MacCapi` implements it under
  the mapping `Phase(h)`:
  * `raw` ↦ raw;
  * `destroyed` ↦ finished;
  * built ↦ the state of its heap Cmac.
  `ret` records the call as well as the status. A call is therefore matched
  to the abstract step of the same name, never to some other step that has
  the same effect.

**CmacClient.**

* `keyOk` abstracts `run_cmac`'s `key_size` argument to valid or not.
  `demo_cmac` passes a valid 16-byte key. `run_cmac` itself takes any key.
* `Cmac::init` is outside `src/`. For a wrong key size, the skipped test
  `CMAC_wrongKeySize` expects it to return `ALC_ERROR_NONE`, and its FIXME
  says it should not. `CmacInit` therefore allows both: accepted (keyed), or
  rejected (unkeyed). A rejected key is how `run_cmac` reaches its error
  return after update.
* Each step of `run_cmac` is the `MacCapi` action of its call on the
  client's handle, together with the `alcp_is_error` test that follows it
  (`CheckErr`).
* `malloc` may return NULL. `alcp_mac_request` always returns
  `ALC_ERROR_NONE`: `new Cmac` throws rather than return null, so the null
  test in `CmacBuilder::build` is unreachable.
* `MacHandle` is checked on the other handles (`MHApps`). On the client's
  handle a rejected key departs from the contract, see hazard
  `cmac_build.hh:51`.

**Poly1305Dispatch.** The engines are abstracted to which one a call reaches:
`ref` (`poly1305_impl`) or `radix44` (`state`). Whether `poly1305_impl`
exists is kept, and so is which engine holds the key. The MAC arithmetic
is not modelled. Each of `init`, `update`, `reset` and `finalize` has its
own dispatch operator (`initEngine`, ...), translated from its own
`if constexpr` chain and its own copy of the CPU test. Whether the copies
agree is what `EngineConsistent` checks.

**Sha512Avx.** Words and registers are symbolic tags, not 64-bit values.

* A message word is `[c, t]`, word t of chunk c. A schedule entry is
  `[c, t, k]`, that word plus `K_k`.
* A working variable is `[role, r, c, base]`: the value register A or E of
  the FIPS 180-4 compression of chunk c holds after round r, started from
  hash `base`.
* Every operation (`Rec` for the schedule recurrence, `AddK`, `ShaRound`)
  builds its result from its operands' tags. It yields a junk tag when the
  operands are not the ones the standard combines.
* A lane of `pHash` therefore gets chunk c appended exactly when every one
  of the 80 rounds of c received the right registers and the right schedule
  entry. Otherwise it gets -1.
* The code's own control is kept as written:
  * the odd chunk first;
  * `for` loops over turns and blocks, with their `k512_idx` and `pos`
    arithmetic;
  * the layout of `sha512_hash_constsx2` (`KIdxX2`);
  * the stores of both lanes into `ms`;
  * the renaming after every two rounds;
  * the argument order of the unrolled rounds (`RotNames`);
  * the lane order of the final additions.
* `ShaRound` is in `sha512.hh`, which is not in the repository. It is taken
  from FIPS 180-4.
* The loops are RECURSIVE operators whose accumulator carries the loop
  counter, written in the order the code runs them.

**IppAesWrapper.** The ALCP cipher is reduced to whether its request and its
encrypt succeed. Modes and IV buffers are model values, and heap blocks are a
small set.

## Runs

| Run | Expect | Checks | Shows |
|---|---|---|---|
| `vaes_gcm` | pass | `TypeOK`, `KeystreamNeverReused`, `GcmStreamSpec` | Aligned updates never reuse a counter block. They implement `GcmStream`: every byte is xored with the counter block the standard assigns to its position, under the key's AES kernel, and GHASH folds every block with the power of H of the sequential fold. This holds across all steps of the cascade and across calls. |
| `vaes_gcm_tail` | violation | `KeystreamNeverReused` | An update after a partial block reuses the counter of that partial block. |
| `ofb` | pass | `TypeOK`, `KeystreamContinuous` | Consecutive calls continue the keystream. |
| `ofb_tail` | violation | `OutputIsKeystreamXor` | The partial tail of `__crypt_ofb` is output without the xor. |
| `system_rng` | pass | `TypeOK`, `SuccessFillsBuffer`, `EveryCallReturns` | A NONE return means every byte was read into, and each call returns. |
| `system_rng_race` | violation | `FdOpenedOnce` | Concurrent first calls open `/dev/urandom` twice. |
| `mac_capi` | pass | `ClientTypeOK`, `ExclusiveOwnership`, `ReturnedHoldings`, `AppsMacHandleSpec` | `run_cmac` gets a valid or a wrong-size key, which `Cmac::init` may accept or reject, and runs interleaved with any calls on two other handles. It has released its context and Cmac when it returns success, and only then: every error return after malloc leaks both. Every heap Cmac is owned by exactly one built handle, through copies and reuse of freed memory. On the other handles the C API implements the `MacHandle` contract. |
| `poly1305` | pass | `TypeOK`, `ConstructedNoNullDeref`, `EngineConsistent` | On every CPU and for every feature, the constructor's test agrees with the calls' dispatch, so constructed objects never reach a null `poly1305_impl`. The four methods' own copies of the test agree with each other, so calls after `init` reach the keyed engine. |
| `poly1305_copy` | violation | `NoNullDeref` | A copy-constructed object dereferences a null `poly1305_impl`. |
| `ipp_aes` | pass | `TypeOK`, `NoLeak` | On every request and encrypt error path, and across CCM init, the wrapper owns exactly the block `ch_context` points to. |
| `sha512` | pass | `TypeOK`, `HashIsSequential` | On two contexts, across calls of 0 to 3 chunks, every lane of `pHash` is the chained compression of exactly the stream's chunks, in order. This holds through both paths, the ring and linear areas of `ms`, and the renaming. |
| `ipp_aes_stale` | violation | `CallSeesOwnParams` | After an encrypt error, the next call runs with the old mode and the old IV pointer. |

### Bounds and why they are enough

**GCM.**

* `Lanes = 4` as in the code. The counter word is 8 bits wide, so that a
  wrap is reachable in a few calls.
* The lengths are {0, 5, 16, 48, 130, 400, 2032, 2037} bytes.
  * 0 to 3 full blocks reach the residual loop.
  * 130 bytes take a 32-block step, then a 0-block residual, then a partial
    block. 400 bytes are 25 blocks: the 16-, 8- and 4-block steps and a
    residual loop of 1.
  * 2032 bytes are 127 blocks: the 64-block loop, every step of the
    cascade, and 3 residual blocks.
  * Non-multiples of 16 give the partial block.
* Up to 4 calls per stream, so the cascade is entered with every counter
  phase that these lengths produce.
* `CallerLimit = 2^8 - 2` blocks. This is the GCM limit scaled to the
  model's word, and the caller outside `src/` is assumed to enforce it.
  Without the limit, TLC reaches the counter wrap (a hazard in
  `PROJECT.json`).

**OFB.** The lengths are 0, 5, 16, 21, 32, 37 and 48 bytes (0 to 3 blocks,
with and without a tail), for up to 6 calls.

**SystemRng.**

* Two threads, which is enough for every pairwise race on `m_fd`.
* Buffers of 0 and 3 bytes, so that short reads, a -1 in mid-buffer and
  EOF all occur.
* A 3-bit `size_t`, so that the wrap is reachable.
* The code's 10 tries.
* All three engines in the pass run. Only `/dev/urandom` in the race run,
  since the other builds have no descriptor.

**MacCapi and CmacClient.**

* Two application handles, enough for a copy and for two owners of heap
  objects, plus the client's handle.
* Three heap blocks, one for each handle. A new Cmac lands where a finished
  one was whenever a handle is requested again. No handle ever waits for a
  block unless some object leaks.
* `ClientKeys = {TRUE, FALSE}`: `run_cmac` reaches its success path (also
  with an accepted wrong-size key) and the error return after update.
* `KeyOk = {TRUE}` for the other handles. With a bad key,
  `__cmac_wrapperInit` drops the status of `Cmac::init`
  (`cmac_build.hh:51`), and the repository does not decide what
  `Cmac::init` should do. So there is no promise for that key to check;
  this is recorded as a hazard.

**Poly1305Dispatch.**

* Two objects, so that a copy has a source.
* All four features.
* Every one of the 8 subsets of {F, DQ, BW} as the CPU. This covers each
  partial AVX-512 CPU on which a single divergent test would show.

**Sha512Avx.**

* Two contexts, at most 11 chunks each.
* Lengths {0, 128, 200, 256, 384}. These give calls with no chunk, an odd
  chunk alone, a pair, an odd chunk plus a pair, and a length that leaves a
  tail.
* Every call runs the full 80-round computation of every chunk. Longer
  calls only repeat the pair loop, whose state (`ms`, the registers) the
  model carries from pair to pair.

**IppAesWrapper.**

* Two modes, two IV buffers and two heap blocks, so that a later call can
  differ from the failed one and a block can be reused.
* Request and encrypt can fail. `CcmReinit = FALSE`, see the hazards.

### Fairness

`SystemRng` assumes weak fairness of each thread's steps inside `randomize`.
A thread that has entered the function is eventually scheduled again by the
OS. Nothing in the loop blocks: `read` on `/dev/urandom` returns. Calls of
`randomize` are not assumed to happen. `EveryCallReturns` holds because the
loop is bounded.

The GCM, OFB, SHA-512, MAC, Poly1305 and IPP models have no liveness
property. Their calls are sequential, one call per step. `run_cmac` is
straight-line code, and nothing in the MAC API waits. The GCM and OFB runs set `CHECK_DEADLOCK FALSE` because a
stream really does stop: it is finalized, or it reaches the call bound. The
SHA-512 run sets it for the same reason, at the chunk bound. The
MAC, Poly1305 and IPP runs always have an enabled call, so deadlock is checked.

## Findings

1. **GCM partial block (divergence).** After an update that ends in a
   partial block, `m_counter_128` is left at the counter that block used. A
   further update on the same context then reuses that keystream block
   (`vaes_gcm_encrypt.cc:538-564`).
2. **OFB tail (code bug).** `__crypt_ofb` copies the plaintext of the last
   partial block to the output without the xor (`aesni_ofb.cc:107-125`,
   with the same code in the 12- and 14-round branches).
3. **SystemRng open race (divergence).** The static `m_fd` is set without
   synchronisation. Concurrent first callers each open the device, and one
   descriptor leaks.
4. **Poly1305 copy constructor (code bug).** `Poly1305(const Poly1305&) {}`
   (`poly1305.cc:54-56`) copies nothing. On the reference path the copy
   dereferences a null `poly1305_impl`. With AVX-512 the copy starts from an
   unkeyed state.
5. **IPP stale parameters (code bug).** After an encrypt error,
   `alcp_encdecAES` keeps the handle (`ipp_aes_common.hh:146-149`). The next
   call skips the setup at lines 72-77 and runs with the earlier call's mode
   and IV pointer.

Observation, not checked by a run: under WIN32, a failing `CryptGenRandom`
returns `ALC_ERROR_NO_ENTROPY` without `CryptReleaseContext`
(`system_rng.cc:140-143`). The provider handle leaks, and the model's `held`
counts it. This branch is not built for Linux, the target the runs model.

Observation, checked as `ReturnedHoldings`: every early return of
`run_cmac` after malloc (`cmac.c:73-96`) skips `alcp_mac_finish` and
`free`, so the context and its Cmac leak. With a valid key none of these
returns is reachable, so `demo_cmac` as written does not leak.

The GCM counter wrap past 2^32 - 2 blocks is recorded as a hazard, not a
finding. No code under `src/` bounds the stream, and the GCM length limit
is the caller's to enforce.

## Plan

Written: GCM (all three key-size entry points), OFB, SystemRng (all three
builds), MacHandle/MacCapi, Poly1305Dispatch, IppAesWrapper, Sha512Avx, the
GcmStream refinement, and `run_cmac` composed with the MAC C API.

Nothing under `src/` that the models leave out has state that TLC could check
beyond what is listed under *Not modelled*.
