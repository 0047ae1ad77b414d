# TLA+ models of the hybris jerasure JNI binding

The native code in this repository (`src/jerasure/jni/`) is the JNI layer
between the Java classes `eu.vandertil.jerasure.jni.{Jerasure, Cauchy,
ReedSolomon, Liberation, Galois}` and the C library jerasure. jerasure itself
is not in the repository; `spec.md` describes what it does.

## The system

| Part | Source | State it touches | Operations |
|------|--------|------------------|------------|
| JJerasure binding | `JJerasure.cpp` | Java int[]/byte[]/boolean[] arrays, their native copies, a talloc'd `erased` block | matrix_to_bitmatrix, do_parity, matrix_encode, bitmatrix_encode, matrix_decode, bitmatrix_decode, make_decoding_matrix, make_decoding_bitmatrix, erasures_to_erased (lines 338-416 only declare more methods; they have no body) |
| javautility | `javautility.cpp` | the two vectors of an array-of-arrays argument | getArrayOfByteArrays, freeArrayOfByteArrays, throw helpers |
| JCauchy binding | `JCauchy.cpp` | x, y and matrix arrays | cauchy_original / xy / improve / good_general coding matrix, cauchy_n_ones (in `GaloisField`) |
| JLiberation binding | `JLiberation.cpp` | none (new arrays only) | liberation, liber8tion, blaum_roth coding bitmatrix |
| JGalois binding | `JGalois.cpp` | region arrays | single-value multiply / divide / log / inverse, table builders, region xor, w08/w16/w32 region multiply |
| JReedSolomon binding | `JReedSolomon.cpp` | device and region arrays | Vandermonde, extended, big and R6 builders, r6_encode, w08/w16/w32 region_multby_2 |
| jerasure core | (not in the repository) | GF tables, matrices | specified in `spec.md` |

Every native method follows the same protocol:
1. It copies its array arguments to the native heap with
   `Get<Type>ArrayElements`. On HotSpot this always copies, and it returns
   NULL when the copy cannot be allocated.
2. It checks the pointers and calls jerasure on the copies.
3. It copies the copies back and frees them with
   `Release<Type>ArrayElements(..., 0)`.
4. It throws `OutOfMemoryError` or `IllegalArgumentException` on the failures
   it detects.

Several Java threads may call the methods at the same time. spec.md §5 says
what the caller must guarantee: the data and coding devices and a decoding
matrix are owned by the call, while coding matrices are built once and then
shared read-only.

Hard behaviours this code has:
- **Interleaving:** the copies taken at entry are written back at exit, so a
  concurrent call's write in between can be lost.
- **Partial failure:** any one Get can fail after others succeeded, and the
  cleanup then has to undo exactly what was done.
- **Undefined behaviour:** the binding can release a NULL or already-freed
  copy, or return an uninitialized handle.

## Modules

- `JerasureJni.tla` models every native method that takes or returns a
  Java array: those of `JJerasure.cpp`, `JCauchy.cpp`, `JLiberation.cpp`
  and `JReedSolomon.cpp`, and the region methods of `JGalois.cpp`, with the
  javautility helpers.
  JJerasure.cpp ends with ten prototypes that it never defines. A call to
  one of them is the action `unsatisfied_link`: the JVM cannot link it and
  throws UnsatisfiedLinkError without entering native code.
- `GaloisField.tla` models the single-value methods of `JGalois.cpp`. They
  pass their arguments to one jerasure routine each and return the result.
  The routines are spec-modelled: log/antilog tables, full tables,
  shift-and-add and the split w = 8 multiply, built from the
  shift-and-conditional-XOR doubling of spec §4. `RefMultiply` is the
  reference: the carry-less product reduced modulo the primitive
  polynomial.
- `ErasureCode.tla` is the contents side of the matrix methods, over
  `GaloisField`. The binding's part is modelled from the source:
  - `CauchyOriginalAccepts` is the argument check of JCauchy.cpp:18;
  - `cauchy_original_coding_matrix` is the int[] Java receives, jerasure's
    m×k matrix copied row by row with `SetIntArrayRegion`.
  jerasure's part is spec-modelled: the Cauchy builder (X = 0..m-1,
  Y = m..m+k-1), the field-matrix encoder, and the decoder. The decoder
  takes the rows of the first k survivors and inverts them by Gauss-Jordan
  elimination with a pivot search (`GaussJordan`).
- `ErasureStore.tla` is the abstract promise of an erasure code: k data
  units on k + m devices. `Write` stores new data. `Lose` loses one device,
  and the data becomes `Gone` once more than m are lost. `Repair` rebuilds
  the lost devices and leaves the data unchanged.
- `MCGaloisField.tla` is a Java caller that invokes those methods on every
  pair of field elements, one pair per step. The same pair is the data of
  the small codes `DecodeRecovers` encodes and decodes. It is also the data
  of a store with k = 2 data and m = 2 coding devices, over the matrix
  `cauchy_original_coding_matrix` hands to Java:
  - every step to a new pair is a write: the caller puts the data in the
    data devices and calls the matrix_encode handler (`matrix_encode`).
    jerasure computes the coding copies. `FreeArrayOfByteArrays` then
    gives back the data copies and the coding copies, in that order
    (JJerasure.cpp:80-101);
  - `LoseDevice` loses any device not yet lost, which then holds garbage;
    this is the system's fault model;
  - `Repair` calls the matrix_decode handler (`matrix_decode`,
    JJerasure.cpp:136-167). jerasure rebuilds the erased copies. The two
    `freeArrayOfByteArrays` copy the data copies and then the coding copies
    back, and `result == 0` becomes JNI_TRUE, on which the caller takes
    the store to be whole again.
  Every Get succeeds here; the failure paths of both handlers are
  `JerasureJni`'s. The variable `readback` is derived: every step sets it
  to what jerasure's decode recovers from the state it leads to
  (`RecoveredData`, spec-modelled).
  `Store == INSTANCE ErasureStore WITH data <- readback, lost <- erased`
  maps the store onto the abstract promise.
  `readback` is a variable, not an expression of the others, because
  priming the decoder's body makes TLC recompute the field tables on
  every call.
- `MCJerasureJni.tla` is the model-checking instance. It names the method
  sets the runs use (`CodecMethods`, `DecodingSetupMethods`,
  `BuilderMethods`, `GaloisRSMethods`;
  `FailedGetMethods` and single methods for the violation runs) and the
  symmetry of threads and arrays.

### State

The state of `JerasureJni` corresponds to the code as follows:

| Variable | What it models |
|----------|----------------|
| `heap[a]` | The content of Java array `a`, abstracted to a generation number. jerasure's writes produce a new generation. |
| `gen` | The last generation written, capped by `MaxGen`. |
| `pc[t]` | `"idle"` while thread `t` is in Java, or the native method `t` is inside. |
| `frame[t]` | The native copies `t` holds. There is one slot per `Get...ArrayElements` or per `getArrayOfByteArrays` call. A slot is a record: the arrays asked for, and the vector of entries pushed (`buf` is NULL for a failed Get; `live` is FALSE once the entry is released). |
| `native[t]` | Whether `t` holds the `talloc(int, k+m)` block of the make_decoding methods. |
| `call[t]` | What `t`'s last call did, as Java sees it: whether jerasure ran, the return value, whether it threw, the arrays jerasure wrote, and the generation it wrote. |
| `crash` | Why the JVM died, or `"none"`. |

### Actions

Each native method is two steps:
- **Entry.** This is the action named after the method. It takes every
  `Get`, in the method's order. It evaluates the method's own guard (for
  example `MatrixEncodeGuard`, a literal copy of line 92) and runs jerasure
  or throws.
- **`Return(t)`.** This performs the method's releases in source order.
  They are listed per method (`MatrixDecodeReleases`, and so on), and
  `freeArrayOfByteArrays(n)` is `Free(slot, n)`.

Other threads' steps interleave between the two.

`ReleaseOutcomes` gives HotSpot's semantics of each release:
- A release copies the entry back and frees it.
- A NULL entry means a copy from address 0, so the JVM dies.
- A second release of an entry is a double free. This is undefined
  behaviour, modelled as a choice between a glibc abort and going on.
- A `vector::at` past the end throws `out_of_range`, which terminates the
  process.

A release whose array handle is NULL (the `jr2` of the region multiplies
in place mode, `NullArraySlot`) makes HotSpot dereference NULL, so the JVM
dies.

The throw helpers are `ThrowOutcomes`. FindClass finds the exception
class unless an exception is already pending. HotSpot's FindClass returns
NULL at once in that case. The helper then falls back to
`throwNoClassDefError`, which calls itself while FindClass keeps returning
NULL. A pending exception exists exactly when New<Type>Array has failed
(`NewArrayFailed`; `NewMayFail` lets it fail). The recursion is modelled
as a choice between the two builds: a stack overflow (the JVM dies) and a
tail call compiled to a jump (the thread spins, and its return step is
never enabled).

An uninitialized `jbooleanArray` result is also a choice: HotSpot either
crashes resolving it, or does not.

The inputs are chosen with `\E` from small sets: the arrays passed, the
success of each Get (`GetResults`, `FailAt`) and of each New<Type>Array
(`NewResults`), the erasure list, `w` and
allocation failures.

The results of jerasure come from spec.md. These operators are marked
`spec_modelled` in the map:
- A decode or a decoding-matrix build fails when more than m devices are
  erased (`DecodeResult`).
- `erasures_to_erased` returns NULL then (`ErasuresToErasedOk`).
- The builders fail on invalid `w`.
- `reed_sol_r6_encode` returns 1 for w in {8, 16, 32} and 0 otherwise
  (`R6EncodeResult`).

`galois_region_xor` may be given a source that is also its destination
(`XorSources`): spec §7 writes the add mode of regionMultiply as
`regionXor(dest, tmp, dest, n)`.

`CallerOwns` is the caller's contract from spec.md §5, applied at entry.

## Runs

Each entry below gives the run, its config, the result expected, and what it
shows.

- **`codec`** (`MCJerasureJni_codec.cfg`), expected to **pass**. Two
  threads run do_parity, the encoders and the decoders concurrently, each on
  its own device set, and every Get succeeds.
  - `NoPinLeak`: every copy and the talloc'd block are given back by the
    time the call is back in Java.
  - `CallOutcomeReported`: the return value or the exception tells Java what
    jerasure did.
  - `TypeOK`: the frames, pins and call records keep their shape; the
    only type invariant, checked in this run.
- **`setup`** (`MCJerasureJni_setup.cfg`), expected to **pass**. Two threads
  run erasures_to_erased, make_decoding_matrix, make_decoding_bitmatrix and
  matrix_to_bitmatrix next to a matrix_encode that reads the same shared
  matrix, and call the declared-only invert_matrix. It checks `NoPinLeak`
  and `CallOutcomeReported`.
- **`builders`** (`MCJerasureJni_builders.cfg`), expected to **pass**. Two
  threads call the JCauchy and JLiberation builders, including the in-place
  `cauchy_improve`, together with matrix_to_bitmatrix and matrix_encode. It
  checks `NoPinLeak` with K = 2 devices per set.
- **`galois_rs`** (`MCJerasureJni_galois.cfg`), expected to **pass**. Two
  threads run region_xor (its sources may be its destination), the region
  multiplies into a second array or in place, r6_encode, region_multby_2 and
  the Reed-Solomon builders. It checks `NoPinLeak`, `CallOutcomeReported`
  (r6_encode's `result == 1`) and `OutputsPublished`: after a successful
  call, every array jerasure wrote holds that output or a later one. The
  caller contract (spec §5) lets only region_xor's sources alias, so this
  is where the release order can lose an output. The
  in-place region multiply ends the JVM (see `null_r2`), so that path is
  explored up to the crash.
- **`gf_arith`** (`MCGaloisField.cfg`), expected to **pass**. Every pair
  of elements of GF(2^w), for w = 2, 3, 4 and 8, is checked:
  - `MultiplyAgrees`: each multiply entry point (single, logtable,
    multtable, shift and, for w = 8, split_w8), and log followed by ilog,
    gives the reference product. JCauchy's `cauchy_n_ones(n, w)` equals
    the number of ones in the w×w bitmatrix of multiplication by n, whose
    column i is n·x^i (spec §5).
  - `DivideUndoesMultiply`: each divide entry point undoes a product and
    returns -1 for a zero divisor. The two inverse methods give the
    inverse.
  - `DecodeRecovers` (spec §8): for each k, m, w that
    `cauchy_original_coding_matrix` accepts, the following holds. Encode
    with the int[] handed to Java. Then, for any erasure set of size at
    most m, with the erased devices holding garbage, matrix_decode restores
    every device. More than m erasures are reported unrecoverable.
  - `StoreRefinesErasureStore == Store!Spec`: the store implements
    `ErasureStore`. Writes, device losses and repairs may come in any
    order. Through all of them, the data a reader recovers never changes
    while at most m devices are lost. It is reported gone past m losses.
    A repair must give every rebuilt device back to Java, the coding ones
    included. A coding device left stale passes every read until a later
    loss makes the decoder use it. `DecodeRecovers` looks at one decode,
    so it cannot see this.
- **`failed_get`** (`MCJerasureJni_oom.cfg`), expected to be **violated**.
  Gets may fail. `NoCrashOnFailedGet`: a failed copy should become an
  `OutOfMemoryError`, yet the JVM dies in the cleanup.
- **`encode_guard`** (`MCJerasureJni_encode.cfg`), expected to be
  **violated**. `JerasureInputsPinned`: matrix_encode runs jerasure on data
  it did not copy.
- **`uninit_result`** (`MCJerasureJni_erased.cfg`), expected to be
  **violated**. `NoNativeCrash`: erasures_to_erased returns an uninitialized
  handle after rejecting too many erasures.
- **`null_r2`** (`MCJerasureJni_nullr2.cfg`), expected to be **violated**.
  `NoNativeCrash`: galois_w08_region_multiply with `jr2 == NULL`.
- **`vandermonde_guard`** (`MCJerasureJni_vandermonde.cfg`), expected to be
  **violated**. `VandermondeArgsAccepted`: a Vandermonde build with
  k = 2, m = 1 and w = 2 fits the field, yet the binding refuses it.

- **`oom_hang`** (`MCJerasureJni_hang.cfg`), expected to be **violated**.
  `CallsReturn`: cauchy_original_coding_matrix whose NewIntArray fails
  never returns.

What the violations show (details are in PROJECT.json "findings"):
- **Releases of NULL.** Every handler releases its copies unconditionally,
  so a NULL from a failed Get is released (JJerasure.cpp:45 and the others).
- **matrix_encode's guard.** It tests `getCodingDevices` twice and never
  tests `getDataDevices` (JJerasure.cpp:92).
- **`jbooleanArray result` is never initialized** (JJerasure.cpp:299).
- **The region multiplies release a NULL array** (JGalois.cpp:234, 268,
  301). In the in-place mode they skip the Get of `jr2` but still call
  `ReleaseByteArrayElements(jr2, ...)`.
- **The throw helpers never return after a failed New<Type>Array**
  (javautility.cpp:10). The methods call `throwOutOfMemoryError` with the
  JVM's OutOfMemoryError already pending, and FindClass then returns
  NULL. `throwNoClassDefError` retries itself for ever, overflowing the
  stack or spinning. Every builder's `result == NULL` path is affected,
  e.g. JCauchy.cpp:38 and JJerasure.cpp:42.
- **`k <= m` in reed_sol_vandermonde_coding_matrix** (JReedSolomon.cpp:20)
  refuses the codes spec.md builds (Scenario B: k = 10, m = 4).

Each property of a passing run has a mutant in PROJECT.json. The mutant is a
plausible bug in a mapped definition, and TLC must find it:
- freeArrayOfByteArrays stopping one device early;
- `result == 1` taken as success;
- a missing release of the parity or of the improved matrix;
- region_xor releasing its destination before its sources;
- r6_encode taking 0 as success;
- a matrix_decode handler that never gives the coding copies back
  (`matrix_decode_no_coding_free`, caught only by the refinement);
- a Gauss-Jordan inversion that takes the pivot on the diagonal without
  searching below it;
- a multtable multiply calling the divide table, or a divide with its
  operands swapped;
- a copy loop running past the end.

### Bounds

Every bound is chosen so that the case it serves actually happens:
- **Arrays.** Each run gets just enough arrays for two calls to be in
  flight at once under the ownership contract:
  - `codec`: K = M = 1 and four byte arrays, so two concurrent calls each
    have their own two devices.
  - `setup`: three int arrays, so a make_decoding call has its own
    decoding_matrix and dm_ids next to a shared matrix.
  - `builders`: K = 2, M = 1, three byte arrays and two int arrays, so an
    encode and a cauchy_improve can be in flight together.
  - The violation runs: K = 2, M = 1 and one thread, so a Get can fail in
    the middle of getArrayOfByteArrays.
  - `galois_rs`: K = M = 1 and four byte arrays, enough for an r6_encode
    (one data and two coding devices) next to a region operation.
  - `null_r2` and `vandermonde_guard`: one thread and one method. For
    the Vandermonde run, K = 2 > M = 1 and w = 2 (k + m = 3 fits in 4).
  - `oom_hang`: one thread and one builder.
  - `gf_arith`: all 2^w × 2^w argument pairs of each width. For
    `DecodeRecovers`: k = 2, 3 and m = 1..3 over w = 2, 3, 4. This
    includes the boundary k + m = 2^w (w = 2, k = m = 2) and every erasure
    set, so erased data devices force row swaps in the inversion. w = 8 is the
    width the split tables and the byte-region methods use. The store
    takes w = 2, 3, 4: k + m = 4 = 2^2 is the boundary of the Cauchy
    check. Losses go up to all four devices, so the path past m is
    reached. Lost sets and repairs follow every order. w = 8 writes only,
    which keeps the 65536 pairs without loss states.
- **`MaxGen = 2`.** This allows two writes by jerasure: two successive or
  concurrent outputs to arrays.
- **`WordSizes = {1, 2}`.** With k + m = 3, w = 1 makes the Cauchy and
  Liberation argument checks fail and w = 2 makes them pass.
- **Erasure lists** have up to M + 1 entries, so the "too many erasures"
  path is reached.

Threads and arrays of one type are interchangeable, so the safety runs use symmetry.

The methods each run calls (`Methods`) are a subset of the native methods.
Two threads over all nine JJerasure methods at once take more than the time
budget, so the runs split them into codec, decoding setup and builders.
Across the runs, every method is called.

**Fairness.** `FairSpec` adds weak fairness of each thread's `Return`
step, and nothing else. What follows jerasure in a method is straight-line
code: releases, a throw helper and the return. None of its JNI calls
blocks, and the OS keeps running a runnable thread, so a thread that can
finish its method eventually does. No Java thread is obliged to call a
native method, so the entry steps are not fair. `CallsReturn` therefore
fails only if a return step is never enabled, and the throw helpers'
recursion is the one way the code gets there. It is checked in `oom_hang`,
where that recursion is reached; with New<Type>Array never failing it
would hold by the shape of Enter and Return alone, so no passing run
checks it.
Deadlock checking is off: the model stops only when the JVM has crashed,
which is reachable through the uninitialized result even in the passing
runs.

## Not modelled

- **Array contents.** In `JerasureJni` a generation number stands for the
  bytes.
- **The rest of the jerasure core.** It is not in this repository. Its GF
  arithmetic is spec-modelled in `GaloisField`. The Cauchy original
  builder, the field-matrix encoder, the decoder and the inverter are
  spec-modelled in `ErasureCode`. Not modelled:
  - the Vandermonde, R6, Liberation-family, good-general and improve
    builders (spec.md states their constraints, not their constructions);
  - the bitmatrix path and the schedules;
  - `row_k_ones`.
  `JerasureJni` takes only the builders' results from spec.md.
- **Array contents of the region methods.** `GaloisField` checks the
  arithmetic element by element, and JerasureJni checks the copies. No
  module combines the two.
- **The table builders' state.** jerasure builds its tables lazily, and
  `galois_create_*_tables` return its status as a jboolean.
  `GaloisField` models the tables as their final contents. Concurrent first
  use (spec §4) is inside jerasure and not in this repository.
- **The extended and big Vandermonde shapes.** `rows <= cols` is modelled,
  but spec.md does not say which shape it expects, so no property checks it.
- **The local-reference table and integer overflow of array lengths.** These
  are listed as hazards without properties. HotSpot grows the local
  reference table instead of failing. k·m·w·w wraps in jint only where
  jerasure's own int-sized malloc has already overflowed, so the first
  fault is inside jerasure.
- **Erasure lists as arrays.** jerasure reads the erasures int[] up to a
  -1 terminator, and the binding passes it through unchecked. The models
  take an erasure list as a set of devices, as spec §3 defines it; §6
  documents the -1 terminator the caller must supply.
- **Failed copies in the passing runs.** Every JJerasure handler releases
  a NULL copy after a failed Get, and the JVM dies there (`failed_get`).
  The passing runs therefore let every Get succeed, and `NoPinLeak` is
  checked on the success and jerasure-failure paths only. make_decoding's
  talloc failure is drawn with the Get failures, so no passing run reaches
  it either; that path releases the same four copies and frees NULL. A
  setup run with failures takes more than ten minutes.
- **Copying of shared arrays outside the ownership contract.** With
  unrestricted sharing, the mode-0 copy-back of read-only inputs loses
  concurrent writes.

## Plan

The modules are built in this order, most important behaviour first:
1. **`JerasureJni`** (done). The Get/Release protocol of every native method,
   with concurrency, partial failure and undefined behaviour.
2. **JGalois.cpp and JReedSolomon.cpp** (done) as further actions of
   `JerasureJni`.
3. **`GaloisField`** (done). The single-value JGalois methods over
   spec-modelled GF(2^w) arithmetic, checked against polynomial
   multiplication.
4. **Array contents across calls** (dropped). Under the caller contract of
   spec §5 no written array is shared or aliased except region_xor's
   sources, so an abstract "arrays only move forward" specification holds
   whatever the release code does; `OutputsPublished` in `galois_rs` checks
   the one case the contract leaves open.
5. **`ErasureCode`** (done for the Cauchy original code: the encoder and the
   decoder, checked by `DecodeRecovers`, and the refinement of
   `ErasureStore` by the store of `MCGaloisField`). Encoding with a coding matrix, and
   decoding by inverting the k×k submatrix of surviving rows. It is shown to
   refine an abstract "any k of k+m devices recover the data" specification
   (INSTANCE ... WITH a mapping from device contents to the data).
