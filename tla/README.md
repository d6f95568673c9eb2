# A verification project for mldsa-native

mldsa-native is a C implementation of ML-DSA (FIPS 204) with optional AVX2 and
AArch64 backends. It is sequential, allocates nothing and keeps no state between
calls: its difficulty is in rejection loops that few inputs drive far, in buffers
that are reused as scratch or overlap, in lengths that must stay right over
failures, in incremental interfaces (SHAKE) whose callers cut their data
anywhere, and in arithmetic that postpones its reductions. This project models
those parts in TLA+, checks instances with TLC, and proves the main invariants for
all values of the constants with TLAPS.

Paths below are relative to `mldsa/` of the repository; `PROJECT.json` maps every
definition to its lines.

## 1. The system

| component | state it keeps | operations | hard behaviour | correct means |
|---|---|---|---|---|
| Signature API, `sign.c` | the caller's `pk`, `sk`, `sig`, `*siglen`; on the stack the nonce, mask, challenge, keys | `crypto_sign_keypair(_internal)`, `mld_check_pct`, `crypto_sign_signature(_internal, _extmu)`, `crypto_sign_verify(_internal, _extmu)` | an unbounded-looking rejection loop; `sig` is scratch while it runs; four early exits that each must wipe; the PCT signs with keys that were already handed out; any sequence of calls on the same buffers | no mask repeats, `*siglen` announces only real signatures, only what was signed verifies, intermediates are wiped, calls return |
| Signed messages, `sign.c` | `sm`, `m`, `*mlen`, `*smlen`, which may overlap | `crypto_sign`, `crypto_sign_open` | in-place moves up and down by `CRYPTO_BYTES`, wipes after failure, unsigned subtraction | the signed message is the caller's, the opened one was signed, a failure releases nothing |
| Mask nonces, `polyvec.c` | the vector `y` | `mld_polyvecl_uniform_gamma1` | irrelevant lanes of the 4-way samplers, `uint16_t` wrap-around | each polynomial from its own nonce |
| Keys, `polyvec.c`, `sign.c`, `packing.c` | matrix, `s1`, `s2`, key buffers | `mld_polyvec_matrix_expand`, `mld_sample_s1_s2`, `mld_(un)pack_pk/sk` | batches of four that span rows or leave a rest, irrelevant lanes, pointer arithmetic repeated in packing and unpacking | ExpandA, ExpandS, unpacking inverts packing |
| SHAKE and SHA-3, `fips202/` | `keccak_state`: 1600 bits and `pos` | init, absorb, finalize, squeeze; absorb_once and squeezeblocks, also four at a time; `sha3_256`, `sha3_512` | calls cut at any byte, block boundaries, padding that shares a byte | absorbs the padded message, emits one stream |
| Keccak-f[1600], `fips202/keccakf1600.c`, `native/x86_64/src/KeccakP_1600_times4_SIMD256.c` | a state, or four in the lanes of vectors | `KeccakF1600_StatePermute`, `_StatePermute4x`, `_StateXORBytes`, `_StateExtractBytes` | unrolled rounds on two copies that take turns; column parities carried over from the round before; bytes of a lane on big-endian machines | the permutation of FIPS 202, of each state |
| Rejection samplers, `poly.c`, `native/x86_64`, `native/aarch64` | four XOF streams, four counters | `mld_poly_uniform(_4x)`, `mld_poly_uniform_eta_4x` over `mld_rej_uniform`, `mld_rej_eta` | full-vector stores near the end, hand-over from vector to scalar code, refills for one stream only, a stack buffer of which at most N coefficients are copied out | every polynomial is the accepted candidates in order |
| Challenge, `poly.c` | the polynomial, the byte buffer | `mld_poly_challenge` | swap with an earlier coefficient, refill in the middle | TAU coefficients of +1 or -1 |
| Hints, `packing.c` | hint vector, hint section | `mld_pack_sig`, `mld_unpack_hints` | counts and positions read from untrusted bytes | exactly the encodings are accepted |
| Packed polynomials, `poly.c` | - | packing and unpacking of eta, t0, t1, z, and packing of w1 | eight formats of shifts and masks written out by hand, which of them depends on the mode | every bit has the place FIPS 204 gives it, and comes back |
| Rounding: `rounding.c`, `reduce.c`, the checks of `sign.c` | `t1`, `z`, `w1`, `w0`, `h`, one coefficient each | `mld_power2round`, `mld_decompose`, `mld_make_hint`, `mld_use_hint`, `mld_reduce32`, `mld_caddq`, `mld_poly_chknorm`, packing of a coefficient | magic multiplications, the interval that is joined to the first, a signer and a verifier that compute the same high part from different numbers | what the signer hashed is what the verifier recovers; checks decide as FIPS 204 does |
| NTT and Montgomery reduction: `ntt.c`, `reduce.c`, the products of `poly.c` and `polyvec.c` | a polynomial in place; a 64-bit sum | forward and inverse NTT, `mld_fqscale`, pointwise and accumulated products | additions that are not reduced for eight layers, L products summed before one reduction | the product modulo X^N + 1; nothing overflows |
| Contracts of `poly.h`, `polyvec.h`, `packing.h` | - | every `requires` and `ensures` on coefficients | some sixty functions, each proved on its own by CBMC in C, called in three flows, with native code in the place of some of them | each call meets its contract, through every rejection, in each build |
| NTT assembly, Keccak assembly, `ct.h`, `debug.c`, `randombytes.h`, CBMC, tests, build | - | - | - | not modelled (section 8) |

How they interact: `sign.c` calls everything else, synchronously. The key
generation expands the matrix and `s1`, `s2` from SHAKE through the samplers,
packs the keys and runs the PCT, which signs and verifies. Signing unpacks `sk`,
expands the matrix again, and in each attempt samples `y`, hashes the packed
`w1` from the signature buffer into the challenge sampler, and at the end packs
`z` and the hints. Verification unpacks all this and recomputes the challenge.
Each of these flows sends coefficients through a dozen functions of `polyvec.c`
and `poly.c`, whose contracts say how large they may be.
There are no threads, callbacks or messages; the interleaving that matters is
that of a caller's calls on shared buffers, and of loop iterations over shared
positions and counters.

## 2. The modules

Each module translates its functions at the granularity named in its header,
one action per stretch of code between two decisions or per loop iteration.

* **SigningTerms** - the values that signing tells apart: message
  representatives, keys (known by their seed), signature buffer contents
  (a signature, zeros, packed `w1`, bytes of the caller), and the *oracle* of a
  signing call, which fixes for each attempt which check rejects it. The
  lattice arithmetic only enters signing by these outcomes.
* **SamplePlan** - `mld_polyvecl_uniform_gamma1` as a function from indices to
  nonces, with the `uint16_t` arithmetic.
* **Signing** - `sign.c` without the combined functions. `pc` is the point in
  the code, `frame` says whether the signing code runs for the caller or for the
  PCT, `dirty` is the set of stack buffers that hold intermediate values, `used`
  and `signed` are history. The lists of `mld_zeroize` calls are definitions of
  their own, so that a forgotten one shows. `mld_break_pct()` is a
  nondeterministic choice.
* **SigningApi** - what the API promises, with each call atomic between its
  start and its return; `Signing` implements it under a refinement mapping that
  hides the caller's buffer while signing runs and the return value while any
  call runs.
* **SignedMessage** - `crypto_sign` and `crypto_sign_open` on one memory, with
  each byte of a copy or wipe a step, in place or between two arrays, with
  tampering in between. `mld_memcpy` order is what the module is about, so bytes
  are kept as terms that say which signature or message byte they are.
* **Sponge** - all SHAKE functions, incremental, one-shot and four at a time, and
  SHA-3 (`Digest`). A lane byte is the set of terms XORed into it, `past` the
  sequence of states that were permuted; so the permutation is a symbolic
  injective function and equality of outputs is equality of histories.
* **Keccak** - the permutation behind it, at its own size. A lane is the set of
  its bits. A step is a row of five lanes of a round, in C or in AVX2, or the
  byte access before and after, on a machine of either byte order; `ref` is the
  history of what FIPS 202 makes of the states, round by round, with theta, rho,
  pi, chi, iota and the LFSR of the round constants as defined there.
* **HintCodec** - `mld_pack_sig`'s hint section and `mld_unpack_hints`, one
  loop iteration a step, on arbitrary bytes.
* **RejSampler** - the two samplers with their C, AVX2 and AArch64 loops; a
  candidate is its index in its stream. A vector store writes all its lanes, junk
  included, as the native code does. For AArch64 the stores go to a stack buffer
  (`tmp`, up to `stored`), and the copy that ends the function is an action. What
  distinguishes the instances (sizes, vectors of an iteration, tail, bytes that
  must remain) is a record, `sampler`.
* **Challenge** - `mld_poly_challenge`, one byte a step. Its names (`stage`, `cp`,
  `offset`) differ from those of RejSampler, with which it shares a proof module.
* **KeyMaterial** - matrix and short-vector expansion and the layout of keys,
  with K and L of the three parameter sets; buffers are sets of pieces.
* **Coefficient** - one coefficient of `t`, of `z` or of `w` through
  `crypto_sign_keypair_internal`, `mld_attempt_signature_generation` and
  `crypto_sign_verify_internal`, on Q = 8380417, with the magic constants of
  `mld_decompose` and the constants of the three modes. The variables are the
  coefficient of the C variable of the same name; `cs2` and `ct0` are the two
  uses of `h`. The products `A y`, `c s1`, `c s2`, `c t0` are any integers within
  their bounds (`BETA`; TAU times 2^12), so one coefficient stands for all 256 of
  any product; that `A z - c t1 2^d = w - c s2 + c t0` is the algebra of the ring,
  which the NTT computes, and is taken over. A packed coefficient is its field of
  bits.
* **CoeffPacking** - where these fields lie among the bytes: the loop bodies of
  the eight formats, expression by expression. A number is the set of its bits.
* **Ntt** - `ntt.c`, `mld_montgomery_reduce` and the products, for any number of
  layers, modulus and radix, with a butterfly, a product or a scaling as a step.
  `NttInBounds` has the loop invariants of the source and the range of each
  integer; `ProductIsNegacyclic` compares the result with the ring.
* **Intervals** - what the operations on coefficients make of an interval.
* **Contracts** - the `requires` and `ensures` clauses of the three headers, by
  the functions' names with `_h` for the header. `par`, the build, is a variable that
  no step changes, because the clauses depend on the parameter set.
* **SignProgram** - `sign.c`, `polyvec.c`, `packing.c` and `poly.c` as sequences of
  steps: a call and a return carry the contract, work says what a loop of
  `poly.c` does, a decision is a rejection, and `head` is where its loop starts.
* **BoundFlow** - follows these programs with an interval for every polynomial.
  The interval after a step is computed from those before, by what the code
  does; contracts are only checked. `Accept` and `Reject` are both possible at
  each decision, so all numbers of attempts are covered. The inverse NTT is the
  one function whose result is a parameter (`par.intt`, section 5).

`BoundFlow` extends `SignProgram`, whose programs depend on the build that `Init`
chooses; `Signing` instantiates `SigningApi`. The others meet at what they leave abstract: `Signing` takes the
arithmetic as an oracle, `Coefficient` the products, `Sponge` the permutation,
`RejSampler` the XOF's streams, each of which another module computes.

`MC*` modules give constants; `*Proofs` modules hold proofs. Definitions named
`Bug_...` are plausible faults, each placed before the definition that it would
replace; no specification uses them.

## 3. The runs

| run | bounds | states | checks |
|---|---|---|---|
| `signing` | L = 7, 16-bit integers cut to 0..25, 2 seeds, 2 messages, a context, PCT on | 240k | `TypeOK`, `MaskFresh`, `SiglenIsHonest`, `VerifiedWasSigned`, `OnlyExhaustionLeavesValues`, `PctGate`, `EveryCallReturns`, `ImplementsApi` |
| `signing_zeroize` | the same, PCT off | - | `WipedBeforeReturn`, violated: a finding of section 7 |
| `signed_message` | signatures of 2 bytes, messages up to 3, 2 texts | 2.0M | `TypeOK`, `SignsTheMessage`, `OpenDelivers`, `FailedOpenReleasesNothing`, `RoundTrip` |
| `sponge` | rate 4, hashes of 3 bytes, up to 13 bytes in and 10 out | 1.9k | `TypeOK`, `PaddedMessage`, `OutputStream` |
| `hint_codec` | K = 2, 5 values of a byte, OMEGA = 3 | 21k | `TypeOK`, `PackEncodes`, `UnpackExact` |
| `rejection` | seven samplers of 3 coefficients: uniform and eta, in C, AVX2 and AArch64, 2 streams (and 1); 5 to 10 rejections | 888k | `TypeOK`, `SampledInOrder` |
| `challenge` | N = 6, TAU = 4, rate 3, 1 sign byte, 9 bytes read | 46k | `ChallengeTypeOK`, `InBall`, `StreamInOrder` |
| `key_material` | the real parameter sets | 414 | `KeyTypeOK`, `MatrixIsExpandA`, `ShortIsExpandS`, `UnpackedAsPacked` |
| `coefficient` | all three modes; about 800 values of `w` near borders, 11 to 29 of each product | 377k | `TypeOK`, `UnpackedIsPacked`, `ChecksLowBits`, `HintExact`, `HintRecovers` |
| `kernels` | Keccak and packing at their own size; the ring with N = 8, Q = 17, R = 2^10, L = 2 | 14k | `RoundsFollowKeccak`, `PermutesEach`, `NttInBounds`, `ProductIsNegacyclic`, `FieldsInPlace` |
| `bound_flow` | none: three modes, three backends, three flows, all coefficients | 25k | `RequiresMet`, `EnsuresMet` |
| `native_inverse_ntt` | the same | - | `InverseNttBounded`, violated: a finding of section 7 |

Why the bounds are enough. `signing`: with 0..25 and L = 7, `NONCE_UB` is 2, so
there are calls that succeed at once, after a rejection, and never; one attempt
beyond the bound stays in range and the next wraps, so an off-by-one in the bound
shows as a repeated nonce; two keys and two messages let a signature be checked
against the wrong one. `signed_message`: messages shorter than, equal to and
longer than a signature, so that copies overlap and do not. `sponge`: three full
blocks of input, inputs that end at every position of a block, and outputs over
two block ends; a hash that is shorter than a block. `hint_codec`: every byte string of the section, including counts
above OMEGA. `rejection`: rejections enough to empty the first buffer, so refills
happen; room for a vector appears and disappears within an iteration; the AArch64
buffer holds more than the polynomial, so the copy is cut. `challenge`: three blocks. `coefficient`: piecewise linear functions change only
at the ends of intervals, so the points around them (of the first, some middle and
the last two intervals, in both representations modulo Q, and with products at the
largest norm that passes or fails) decide; the proofs cover the rest. `kernels`:
the control of Keccak does not depend on the states, and a zero state and three
irregular ones show a wrong lane, rotation or constant; the bytes
to absorb lie across two lanes and at the end of the state; of packing, whose
functions are made of shifts, unions and masks, which act on each bit alone, every
single bit of every coefficient is an input; the ring is small, but has three
layers, so that the first, a middle and the last differ, and sums of two
products; the bounds at the real size are the proofs' matter.
`bound_flow` has no bounds: an interval stands for all its coefficients, and what
it loses (any two operands are taken as independent) makes the check stricter.
Bounds that cap a counter (`MaxIn`, `MaxOut`,
`MaxLen`, `MaxRejects`, `MaxBytes`) are constants named as such.

Deadlock checking is off where the modelled function returns and the model ends
(`hint_codec`, `rejection`, `challenge`, `key_material`, `coefficient`, `kernels`,
`bound_flow`, `native_inverse_ntt`).

### Properties worth a word

* `MaskFresh`: the code computes `L*nonce` in a `uint16_t`, and for L = 7 makes
  two calls that overlap in one polynomial. A repeated or constant mask reveals
  the key; the state where it would happen lies thousands of rejections deep.
* `SiglenIsHonest` and `VerifiedWasSigned` relate the buffer to the history of
  *all* calls on it: success, exhaustion, refusal for a long context, bytes
  written by the caller.
* `OnlyExhaustionLeavesValues` says exactly when an intermediate survives.
* `ImplementsApi` says that the signature delivered is that of the first
  acceptable attempt.
* `FailedOpenReleasesNothing` and `OpenDelivers` say that the only message bytes
  a caller gets from `crypto_sign_open` were signed.
* `UnpackExact` is the malleability argument: encodings and accepted byte strings
  are the same set.
* `ChecksLowBits` is the comment of `sign.c:385` made precise: the code never
  computes `w - cs2` rounded, and still rejects exactly when FIPS 204 does.
* `HintExact` and `HintRecovers` relate the signer's comparison of numbers with
  the verifier's rounding modulo Q, at both ends of every interval.
* `SampledInOrder` says that the C, AVX2 and AArch64 loops compute the same
  polynomial.
* `RoundsFollowKeccak` is the invariant of the unrolled loops (which of the two
  copies holds the state, and whose column parities are carried); `PermutesEach`
  is about what the caller reads from memory in the end.
* `RequiresMet` joins the contracts that the repository's CBMC proofs establish
  function by function and for the C code, and includes the native code.

## 4. Fairness

Only `signing` needs it (`EveryCallReturns`): `WF_vars(Step)`, weak fairness of
the steps inside a call. The library is sequential code that runs once called;
nothing obliges a caller to call, so `Call` has none. The other specifications
have no fairness and only safety properties.

## 5. What the inverse NTTs leave

`poly.h:157` promises coefficients below `MLD_INTT_BOUND` = 4211139. `BoundFlow`
takes what each implementation leaves as the parameter `par.intt`. The bound of the
C code is proved; the numbers of the native codes are not derived in TLA+, they
were computed outside, and this is how to get them again.

* *C*: at most 4211138. The last operation on each coefficient is `mld_fqscale`, a
  Montgomery product with 41978, on an `a` with `|a| < 256 Q`. That it leaves less
  than 4211139 is its contract, of which `ntt.c:39` says "TODO: reason about
  bounds"; `FqscaleBound` (section 6) proves it.
* *x86_64* (`native/x86_64/src/intt.S`): 6175969. The second half of the
  coefficients is stored straight after the last layer (lines 188-199), whose
  twiddle factor has mont^2/256 in it and is -3975713; only the first half is
  multiplied by mont^2/256 itself (lines 201-243). A Montgomery product with `c` is
  bounded by `Q/2 + |a c| / 2^32`; the maximum over every `int32_t` `a` by
  exhaustion, reached at 2145312289 and its negative. That the header's bound is
  exceeded was seen by executing `intt.S`: with -8377260 in the first 128
  coefficients and 8377260 in the last 128, all within the contract, it leaves
  -6175226 in coefficient 128.
* *AArch64* (`native/aarch64/src/intt.S`): 6390331. The product is
  `a c - Q round(a c' / 2^31)` with root -294725 and twisted root -75523344; its
  maximum over every `a`, by exhaustion, is at 2145337212. This bounds the last
  multiplication; the assembly was not executed.

`bound_flow` shows that with these numbers every other contract holds in each of
the three builds; `native_inverse_ntt` that the promise of `poly.h` does not.

## 6. Proofs

| module | theorem | statement |
|---|---|---|
| SigningProofs | `TypeCorrect`, `MaskFreshness`, `SiglenHonesty`, `VerificationSound`, `PctDecides`, `OnlyExhaustionLeaves` | `TypeOK`, `MaskFresh`, `SiglenIsHonest`, `VerifiedWasSigned`, `PctGate`, `OnlyExhaustionLeavesValues` are invariants of `Spec` |
| | `SigningImplementsApi` | `Spec => ImplementsApi`: the refinement of SigningApi |
| SignedMessageProofs | `TypeCorrect`, `SigningInPlace`, `OpeningInPlace`, `FailureReleasesNothing`, `SignedOpens` | the five properties of `signed_message` |
| Fips202Proofs | `TypeCorrect`, `MessageIsPadded`, `OutputIsTheStream` | the three properties of `sponge` |
| | `RoundsAreKeccak`, `EachStatePermuted` | `RoundsFollowKeccak` and `PermutesEach` are invariants of `KeccakSpec` |
| PackingProofs | `TypeCorrect`, `PackingEncodes`, `UnpackingIsExact` | the three properties of `hint_codec` |
| | `EveryFieldInPlace` | `FieldsInPlace` is an invariant of `PackingSpec` |
| | `KeyTypeCorrect`, `MatrixExpanded`, `ShortExpanded`, `KeysUnpackAsPacked` | the four properties of `key_material` |
| SamplerProofs | `TypeCorrect`, `FilledInOrder` | the two properties of `rejection` |
| | `ChallengeTypeCorrect`, `ChallengeInBall`, `PlacesInOrder` | the three properties of `challenge` |
| CoefficientProofs | `TypeCorrect`, `PackingIsLossless`, `ChecksLowBitsHolds`, `HintIsExact`, `VerifierRecovers` | the five properties of `coefficient` |
| | `ReduceSound`, `CaddqSound`, `AddSubSound`, `ShiftlSound`, `Power2RoundSound`, `MirrorSound`, `StrongDomainSound` | the intervals contain what the code computes from their elements |
| | `ReduceInRange` | the contract of `mld_reduce32` |
| NttProofs | `CoefficientsStayBounded` | `NttInBounds` is an invariant of `NttSpec` |
| | `NttMultiplies` | `ProductIsNegacyclic` is an invariant of `NttSpec` |
| | `OnlyZeroVanishes` | only the zero polynomial has the value 0 at every root of unity (modulo Q) |
| | `MontgomeryBound` | sums below (R/2) Q are reduced to numbers below Q |
| | `FqscaleBound` | with the Q, R and F of the source, the final scaling leaves less than 4211139 |
| | `TransformGrowth` | a forward transform takes no coefficient further than LAYERS (Q - 1) from the interval of its operand |
| BoundFlowProofs | `FlowIsInductive` | `FlowInvariant`, below, is an invariant of `Spec` |
| | `RequiresAlwaysMet`, `EnsuresAlwaysMet` | `RequiresMet` and `EnsuresMet` are invariants of `Spec` |

They hold for every value of the constants that the `ASSUME`s of the modules
allow: `L \in {4, 5, 7}` and any `UINT16_MAX >= L`; any rate, message and output
length, and a hash no longer than the rate; any signature and message length; any
number of polynomials and coefficients and any weight below the latter; any degree
and weight; every residue and every product within its bound; samplers of any degree,
batch and block size, vector length and iteration, with any number of rejections, as
long as the sizes divide as `SamplerAssumption` says; any
coefficients in the fields of a packed polynomial; any four states of Keccak; any
set of the modes 2, 3 and 5, which are all that `params.h` has, for the keys; any
number of layers, any modulus with an inverse modulo an even radix, and any table of
twiddle factors below Q/2, as long as the sums of L products and the growth over the
layers fit (`NttAssumption`); any build whose dimensions, ranges and bounds are among
those of `params.h`, in any combination, with BETA up to 1000, and whose inverse NTT
leaves less than `MLD_INTT_BOUND` (in C) or less than Q - ETA (native)
(`ParamsAssumption`).

`NttInBounds` has the bound of the final scaling as a parameter, `MLD_INTT_BOUND`, and
`ScaleAssumption` says what this parameter must be: a bound of what can be left of a
product with `F`. It is about numbers only, and `FqscaleBound` shows that the
constants of the source meet it with the bound of `ntt.h:15`. So the limit that
`ParamsAssumption` puts on `par.intt` for C is justified by a proof.

That the products are those of the ring depends on what is in the tables.
`RootAssumption` says it: `ROOT` to the N is -1, `Zetas[k]` is R times the
power of `ROOT` with the bit-reversed exponent, and `F` is R^2 / N, all modulo Q. The
code's table and constants satisfy it: `zetas.inc` with ROOT = 1753, Q = 8380417,
R = 2^32 and F = 41978. TLC evaluates it on the small ring of `kernels`.
The arguments:

* *MaskFreshness.* A nonce of an attempt is `L*nonce + i`. `NonceRoom` shows that
  below the bound this does not exceed `UINT16_MAX`, so `%` is the identity, and
  `MaskNonces` computes the vector that the overlapping calls leave. The
  inductive invariant (`MaskInv`) adds that every used nonce is below `L*nonce`;
  the mask's lie in `L*nonce .. L*nonce + L - 1`.
* *SiglenHonesty, VerificationSound.* The property only speaks of the time
  between calls, so it is not inductive: `VInv` says what the buffers of both
  frames hold at each point of a signing call, and that `signed` is that of the
  caller's buffer; a PCT never touches it.
* *PctDecides, OnlyExhaustionLeaves.* `PctInv` follows the return value from the
  test to the return of key generation; `DirtyInv` says which buffers hold values
  at each point, and `OracleInv` ties the attempts behind to their outcomes.
* *SigningImplementsApi.* `RefInv` keeps what the abstract steps need to know at
  the return: that the call in progress is the one that was started, that
  the PCT's keys are those just generated, that a signature in the buffer is of
  this attempt. `FirstIs` makes the attempt that succeeds the first acceptable
  one. Each step inside a call stutters (`InternalStutters`), each start and
  return maps to the abstract one (`StepImplements`).
* *SignedMessageProofs.* `SignInv`, `OpenInv` and `IntactInv` give the content of
  memory at each iteration of each copy: which bytes have moved and which are
  still where they were. The direction of a copy enters exactly where an unread
  byte must not have been overwritten.
* *Fips202Proofs, the sponge.* `AbsorbInv`: the state holds what was absorbed of the current
  block, `past` the complete blocks; `SqueezeInv`: the output so far is a prefix
  of the stream, and position and length determine each other. `DigestInv` is
  the step of a hash.
* *Fips202Proofs, the permutation.* The states are arbitrary. On the way to
  `RoundOfReference`, which gives a round of the reference lane by lane,
  `RolIsRotated` and `ShuffleIsRotated` show that the shifts, and the byte shuffles
  of AVX2, rotate a lane; `RegisterAfter` and `IotaOfRegister` that the round
  constants in the source are what the shift register of FIPS 202 gives;
  `WalkValue` and `RowsTable` that the rotations and the order of lanes written
  out in the loop body are those of the walk over the plane.
  The invariant (`KeccakInv`) follows the two copies through the unrolled loop.
  Between rounds the copy read next holds the reference's state (`InStep`).
  Inside a round (`HalfRound`) theta's term has been added in place to exactly the
  lanes that the rows so far have read (`TakenBefore`; `SourceInjective` says that
  no lane is read twice), the rows of the other copy are finished, and AVX2's
  parities are those of the finished rows only. States that are not permuted
  together wait in memory unchanged (`InTurn`).
* *PackingProofs, the hints.* `Well(s, v)` is what the checks of the decoder establish: the
  counts rise, the positions of a polynomial rise strictly and list its ones, the
  rest is zero. `EncodeIsWell` and `WellIsEncode` show, by counting the ones that
  come before one, that this holds of `s` and `v` exactly if `s` is the encoding of
  `v`. The loops then need only `PackInv` (the positions written so far are ranks)
  and `UnpackInv` (the polynomials before `i` are well, polynomial `i` up to `j`);
  a failed check contradicts one clause of `Well`, which is why nothing that is
  an encoding is refused.
* *PackingProofs, the coefficients.* Any coefficients, not only the single bits
  that `kernels` goes through. `Right` and `Left` say where a shift takes a bit,
  `FieldInString` that the fields of a string do not meet; with them each of the
  eight formats and their inverses has a lemma (`PackT0`, `UnpackT0`, ...) that
  goes through the assignments of its loop body.
* *PackingProofs, the keys.* A layout (`Layout`) is a list of fields that are as
  long as the pointer moves on after them; `SecretKeyLayout` is where this needs
  that `K` and `L` are not mixed up. From it alone follow that later fields begin
  behind earlier ones (`OffsetsRise`), that no two items meet (`PiecesApart`), that
  the items fill the buffer (`PiecesFill`), and that reading with the same fields
  finds every item in its own place (`ReadBack`).
  `MatrixUpto(K, L, n)` is the matrix when its first `n` entries are sampled; `MatrixInv`
  says that it is `mat`, that the lanes set so far have the seeds of their
  entries, and that a batch of four always fits (`BatchedFact`). `PlaceOf` makes
  number and place of an entry one-to-one. `NoncesUsed(c)` counts the nonces that
  `c` calls have used up; `ShortUpto` says that the polynomials of these nonces
  are right. A call with an irrelevant lane uses three, so what
  that lane wrote is not among them until a later call replaces it (`ShortStep3`,
  `ShortStep5`).
* *SamplerProofs, the challenge.* The history variable `token` follows each coefficient over
  the swaps; that tokens are distinct is inductive together with the other two
  conjuncts of `InBall`.
* *CoefficientProofs.* `DecomposeMode2` and `DecomposeMode35` show that the magic
  multiplications compute Algorithm 36 of FIPS 204 on every residue.
  `HighLowOfSum` says which sums `h * 2 GAMMA2 + l + k Q` have parts `h` and `l`;
  `LargeStaysLarge`, `HintSaysChange` and `UseHintUndoes` are the three facts
  about neighbouring intervals. The properties speak of remainders, which a step
  does not preserve; the inductive invariant (`LowInv`, `HintInv`) keeps the
  integer sum instead, with the single Q that `mld_decompose` may have taken off,
  and the bounds that the norm checks left. Ranges are written as inequalities
  there because the prover enumerates a range between numerals.
  `mld_reduce32` is not monotone: `ReduceSound` shows that its extremes on an
  interval are at the ends or at the first and last change of its quotient.
* *NttProofs.* `MontgomeryBound` is arithmetic on the quotient. `NttInBounds` is
  nearly inductive (`NttInv`): in each layer the coefficients that the layer has
  passed may be a Q larger, and the invariant says which these are at every
  butterfly; halves, blocks and layers are powers of two, given as a table because
  exponentiation is recursive.
* *FqscaleBound.* If R divides `a F - m Q`, the result is the quotient. Bounding
  the two terms on their own gives 4211177. The remaining values are excluded
  by a multiple of the two that is small modulo R: 343982087 times F and Q are
  -1066 and -8185, so R also divides `1066 a - 8185 m`. For a result of 4211139 or
  more, `a` and `m` are both so close to their extremes that this number lies
  strictly between two neighbouring multiples of R.
* *TransformGrowth.* `NttInBounds` bounds coefficients by absolute value, from the
  operands' bound Q; an interval keeps its two ends apart, and what `mld_ntt` gets
  in key generation and signing is often small. `GrowthInv` says for every interval
  that contains the operand which coefficients the current layer has passed, and
  may be Q - 1 further out, and which not (`GrownPair` is the butterfly).
* *NttMultiplies.* `Total`, a sum over indices, is a function on the naturals; what
  it does with sums, multiples, splits and orders of summation is proved
  first, by induction on a set of naturals (`TotalSplit`, ...). The invariant is
  `TransformsCorrect`, with a conjunct for each loop. `ForwardIs`: when `a` layers are
  left, each block of 2^a coefficients is a polynomial that has, at the roots
  that belong to its places, the values of the operand there (`Blocks`); inside a layer
  this holds of the finished blocks and, with the pairs from `j` on still joined,
  of the current one. A butterfly separates a pair (`PairForward`), since the
  weight of the upper half of a block is plus or minus its twiddle factor
  (`FactorIsWeight`) and Montgomery's reduction takes R out of it
  (`MontgomeryDivides`). `InverseIs` is the same on the way back, with a 2 that each
  layer adds; the twiddle factor undoes that of the forward layer (`FactorsCancel`),
  and `ScaleIs` takes N = 2^LAYERS and the R of the products out. So the result has
  the values it should have at every root. The values of the product in the ring
  are the products of the values (`RingValues`), and polynomials with the same
  values are the same (`OnlyZeroVanishes`: a layer of butterflies can be undone,
  because 2 is invertible).
* *SamplerProofs, the polynomials.* `StreamInv(w)` says of each stream how far it was offered
  (`Upto`, which depends on the loop and on the streams before it in the batch)
  and that its polynomial holds the acceptable candidates of that part by rank
  (`Partial`), or is full (`Complete`). `TakeNext` is the one step behind all
  loops: candidates that come later than all others are appended in rank order.
  `PackedLanes` shows that the permutation tables of AVX2 and AArch64 bring lanes
  into that order. `NeonInv` is what makes the AArch64 loops safe without a
  comparison before every store: the vectors an iteration still has to take, added
  to what is stored, stay below the size of the stack buffer, and the position
  after them is a multiple of what every iteration takes. From this multiple it
  follows that a loop that stops early has read the whole buffer, although it
  does not look at what is left.
* *BoundFlowProofs.* The properties speak of one step and are not inductive: that a
  call is within its contract depends on all that the program did before. The
  inductive invariant looks the other way. `Ahead(x, prog, i, v)`: from step `i` with
  the intervals `v`, every step to the end is safe, where safe (`Safe`) is what
  the two properties ask, and, at a check that may go back, that the intervals are
  some with which an attempt can start. `Sound`: with any of these (`x.head`), the
  attempt is safe from the head of its loop, so a rejection needs no memory of how
  often it happened. An action then only has to follow `After`, which is one lemma
  for all loops (`WorkFollows`). `FlowInvariant` is not a state predicate that TLC could
  evaluate, for it speaks of sets of all intervals; TLC checks the properties.

  What remains is that the three programs start soundly (`InitFlow`), and this is
  shown from the parts up. A part of a program is a `Fragment`: it needs bounds on the
  polynomials it reads, leaves bounds on those it writes, keeps all others, and is
  safe between. `FragmentConcat` joins two; `LoopRuns` joins the iterations
  of a loop, by induction on the joined prefix; `ContractRuns` puts a function's
  contract around its body, and `VectorLoop` and `BatchesRun` are what the functions of
  `polyvec.c` have in common. Every function of the three files has a
  lemma (`ReduceRuns`, `Power2RoundRuns`, ..., `UnpackSigRuns`), which rests on what the
  operation makes of an interval (`ReduceFits`, `MontgomeryFits`, ...): these are
  the places where numbers are compared. On the level of `sign.c` the memory is
  described by slots, a bound for each named vector; a function
  replaces the slots it writes (`FunctionReaches`). `KeypairReaches`, `SigningStarts`,
  `AttemptReaches` and `VerifyReaches` go through the functions of `sign.c` call by call.
  `AttemptReaches` also shows that an attempt keeps the slots it started from
  (`HeadSlots`: the matrix and the transformed secrets), which is what `x.head`
  asks; nothing else that one attempt leaves is read by the next.

Every invariant and action property that a passing run checks is proved. Only
model-checked is liveness (`EveryCallReturns`), which is out of the prover's
reach, as is `ENABLED`.

## 7. What does not hold

`config.h:84` says "mldsa-native zeroizes intermediate stack buffers before
returning from function calls". When all attempts are rejected,
`crypto_sign_signature_internal` returns (`sign.c:545-552`) without the
`mld_zeroize` calls of the success path (`sign.c:560-565`). `signing_zeroize`
shows it; `OnlyExhaustionLeavesValues` shows that it is the only such path.

`poly.h:147` says of `mld_poly_invntt_tomont` that "output coefficients are bounded
by MLD_INTT_BOUND", and line 157 makes it the contract. With a native inverse NTT
the function asserts only `MLDSA_Q` behind it (`poly.c:135`), and the native code
does exceed the promised bound (section 5). `native_inverse_ntt` shows it;
`RequiresMet` shows that no function is called outside its contract because of it.

## 8. What is not modelled

* *NTT assembly* (AArch64, x86_64): the arithmetic of `ntt.c` in vector registers
  with interleaved layers. It has no control of its own; a model of it would be a
  transliteration of instructions. What its results are bounded by is section 5.
* *Keccak in AArch64 assembly*: hand-scheduled instructions for the permutation
  that `Keccak` models in C and AVX2.
* *Constant time* (`ct.h`): a property of machine code and of pairs of runs. That
  `mld_zeroize` is not optimised away is the compiler's matter; where it is called
  is in `Signing` and `SignedMessage`.
* *Contents of verification's stack buffers*: it works on public values.
* *Clauses of the contracts about memory* (`memory_no_alias`, `assigns`), and loop
  invariants other than those of `ntt.c` and the accumulated products.
* *Random bytes* come from the application; seeds are chosen nondeterministically.
* *Debug assertions*, CBMC harnesses, tests, benchmarks, build and CI are not part
  of the program.

## 9. Plan

1. *(done)* SigningTerms, SamplePlan, Signing, SigningApi; SignedMessage;
   Sponge; HintCodec; proofs of Signing, SignedMessage, Sponge.
2. *(done)* RejSampler; Challenge and its proofs; KeyMaterial.
3. *(done)* Coefficient (rounding, hints, norm checks) and its proofs.
4. *(done)* Contracts, SignProgram, BoundFlow; Ntt and its proofs; soundness of
   most intervals.
5. *(done)* HintCodec proofs; `PctGate`, `OnlyExhaustionLeavesValues` and the
   refinement of SigningApi.
6. *(done)* Keccak; CoeffPacking; the native samplers of AArch64, with the proofs
   of RejSampler; SHA-3.
7. *(done)* Proofs of Keccak, CoeffPacking and KeyMaterial; the transforms compute
   products in the ring (`NttMultiplies`).
8. *(done)* Proofs of BoundFlow.
9. *(done)* `MLD_INTT_BOUND` from `mld_fqscale` (`FqscaleBound`); the interval of
   `mld_ntt` (`TransformGrowth`).
10. Left: the bounds of the native inverse NTTs (section 5), which would need a model
   of their multiplications.
