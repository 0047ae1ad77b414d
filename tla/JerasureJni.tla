---------------------------- MODULE JerasureJni ----------------------------
(***************************************************************************)
(* The JNI binding of jerasure's matrix API: src/jerasure/jni/JJerasure.cpp *)
(* and the helpers of src/jerasure/jni/javautility.cpp.                     *)
(*                                                                         *)
(* Every native method copies its Java array arguments to the native heap  *)
(* (Get<Type>ArrayElements; HotSpot always copies, and returns NULL when    *)
(* it cannot), calls jerasure on the copies, and copies them back          *)
(* (Release<Type>ArrayElements with mode 0: copy back and free).  A call   *)
(* is modelled as two steps: the entry step takes every copy, runs the     *)
(* guard and jerasure; the return step performs the releases in source     *)
(* order.  Other threads' calls interleave between the two.  The content   *)
(* of an array is abstracted to a generation number: jerasure's outputs    *)
(* get a fresh one.                                                        *)
(***************************************************************************)
EXTENDS Integers, Sequences, FiniteSets, TLC, Functions

CONSTANTS
  Threads,     \* Java threads calling the native methods
  IntArrays,   \* Java int[] objects: matrices, erasure lists, dm_ids
  ByteArrays,  \* Java byte[] objects: data and coding devices
  BoolArrays,  \* Java boolean[] objects: erased vectors
  K, M,        \* number of data and of coding devices passed to a call
  MaxGen,      \* bound on the number of contents jerasure writes
  WordSizes,   \* values of w passed to the matrix builders
  Methods,     \* the native methods the Java threads call
  GetMayFail,  \* TRUE when Get<Type>ArrayElements may return NULL
  NewMayFail,  \* TRUE when New<Type>Array may run out of Java heap
  NULL         \* the NULL pointer

ASSUME K \in Nat \ {0} /\ M \in Nat \ {0} /\ MaxGen \in Nat
ASSUME GetMayFail \in BOOLEAN /\ NewMayFail \in BOOLEAN
ASSUME WordSizes \subseteq 1..30

Arrays == IntArrays \cup ByteArrays \cup BoolArrays
Gen    == 0..MaxGen

\* Device ids of an erasure list: data 1..K, coding K+1..K+M (0-based in C).
Devices == 1..(K + M)

\* How a call can end; "none" while the JVM runs.
CrashCauses == {"release_null", "double_free", "out_of_range",
                "jerasure_read_unpinned", "null_write", "uninitialized_result",
                "release_null_array", "stack_overflow"}

RegionMultiplies == {"galois_w08_region_multiply", "galois_w16_region_multiply",
                     "galois_w32_region_multiply"}
RegionMultbys    == {"reed_sol_galois_w08_region_multby_2",
                     "reed_sol_galois_w16_region_multby_2",
                     "reed_sol_galois_w32_region_multby_2"}

\* The native methods JJerasure.cpp only declares.
Unimplemented == {"matrix_dotprod", "bitmatrix_dotprod", "invert_matrix",
                  "invert_bitmatrix", "invertible_matrix", "invertible_bitmatrix",
                  "print_matrix", "print_bitmatrix", "matrix_multiply", "get_stats"}

\* The native methods modelled.
Handlers == {"matrix_to_bitmatrix", "do_parity", "matrix_encode",
             "bitmatrix_encode", "matrix_decode", "bitmatrix_decode",
             "make_decoding_matrix", "make_decoding_bitmatrix",
             "erasures_to_erased", "cauchy_original_coding_matrix",
             "cauchy_xy_coding_matrix", "cauchy_improve_coding_matrix",
             "cauchy_good_general_coding_matrix", "liberation_coding_bitmatrix",
             "liber8tion_coding_bitmatrix", "blaum_roth_coding_bitmatrix",
             "galois_region_xor", "reed_sol_vandermonde_coding_matrix",
             "reed_sol_extended_vandermonde_matrix",
             "reed_sol_big_vandermonde_distribution_matrix",
             "reed_sol_r6_coding_matrix", "reed_sol_r6_encode"}
             \cup RegionMultiplies \cup RegionMultbys \cup Unimplemented
ASSUME Methods \subseteq Handlers

VARIABLES
  heap,    \* heap[a]: the content (generation) of Java array a
  gen,     \* the last generation jerasure wrote
  pc,      \* pc[t]: "idle", or the native method thread t is inside
  frame,   \* frame[t]: the native copies held by t's current or last call
  native,  \* native[t]: t holds the block talloc'd for `erased`
  call,    \* call[t]: what t's current or last call did, as Java sees it
  crash    \* "none", or why the JVM process died

vars == <<heap, gen, pc, frame, native, call, crash>>

(***************************************************************************)
(* Native copies.  A slot of a frame is the vector of copies one           *)
(* acquisition took: one for Get<Type>ArrayElements, up to n for           *)
(* getArrayOfByteArrays.  `arrs` are the arrays asked for, `vec` the       *)
(* entries pushed (a NULL entry has buf = NULL).                            *)
(***************************************************************************)
Pin    == [arr : Arrays \cup {NULL}, buf : Gen \cup {NULL}, live : BOOLEAN]
LivePin(a) == [arr |-> a, buf |-> heap[a], live |-> TRUE]
NullPin(a) == [arr |-> a, buf |-> NULL, live |-> FALSE]

\* env->Get<Type>ArrayElements(a, NULL); ok = FALSE when it returns NULL.
GetElements(a, ok) ==
  [arrs |-> <<a>>, vec |-> <<IF ok THEN LivePin(a) ELSE NullPin(a)>>]

\* Outcomes of a single Get, and the index of the first failing Get of a
\* list of n (n + 1: none fails).
GetResults == IF GetMayFail THEN BOOLEAN ELSE {TRUE}
FailAt(n)  == IF GetMayFail THEN 1..(n + 1) ELSE {n + 1}

\* Outcomes of New<Type>Array: FALSE when it returns NULL, having thrown
\* OutOfMemoryError (the exception is pending until the method returns).
NewResults == IF NewMayFail THEN BOOLEAN ELSE {TRUE}

\* Mutant: the copy loop runs one index past the end (`i <= n`), pushing a
\* NULL entry for the element it cannot find.
getArrayOfByteArraysPastEnd(arrs, j) ==
  [arrs |-> arrs,
   vec  |-> [i \in 1..(Len(arrs) + 1) |->
               IF i <= Len(arrs) THEN LivePin(arrs[i]) ELSE NullPin(arrs[1])]]

\* getArrayOfByteArrays(env, arrays, arrayOfArrays, resultData, n): Gets the
\* elements in order, pushing each result.  When the j-th Get returns NULL it
\* releases the j - 1 copies taken (freeArrayOfByteArrays(..., i)) and
\* returns false, leaving all j entries in the vectors.  The inner release
\* copies back what was just copied, so the heap does not change.
getArrayOfByteArrays(arrs, j) ==
  [arrs |-> arrs,
   vec  |-> [i \in 1..(IF j <= Len(arrs) THEN j ELSE Len(arrs)) |->
               IF i = j THEN NullPin(arrs[i])
               ELSE [LivePin(arrs[i]) EXCEPT !.live = (j > Len(arrs))]]]

\* The pointer checks of the guards: the copy (or every copy) was taken.
Got(slot) ==
  /\ Len(slot.vec) = Len(slot.arrs)
  /\ \A i \in DOMAIN slot.vec : slot.vec[i].buf # NULL

\* jerasure writes the copies at positions idx of a slot.
Fill(slot, idx, g) ==
  [slot EXCEPT !.vec = [i \in DOMAIN @ |->
                          IF i \in idx THEN [@[i] EXCEPT !.buf = g] ELSE @[i]]]

(***************************************************************************)
(* Releases.  Rel(s) is one Release<Type>ArrayElements of slot s; Free(s, n)*)
(* is freeArrayOfByteArrays(env, ..., n), which releases entries 0..n-1    *)
(* with vector::at, throwing std::out_of_range past the pushed entries.    *)
(* FreeErased is the free(erased) of the block talloc'd for the erased     *)
(* vector.                                                                 *)
(***************************************************************************)
\* Mutant: freeArrayOfByteArrays' loop stops one device early.
FreeShort(s, n) == [slot |-> s, n |-> n - 1]

Rel(s)      == [slot |-> s, n |-> 1]
FreeErased  == [slot |-> "talloc", n |-> 0]
Free(s, n)  == [slot |-> s, n |-> n]

NoPin == [arr |-> NULL, buf |-> NULL, live |-> FALSE]

RECURSIVE ReleaseEvents(_, _)
\* The Release calls the ops make, in order; "out_of_range" ends the list.
ReleaseEvents(fr, ops) ==
  IF ops = <<>> THEN <<>>
  ELSE LET op == Head(ops)
           v  == IF op.slot \in DOMAIN fr THEN fr[op.slot].vec ELSE <<>>
           n  == IF op.slot \in DOMAIN fr THEN op.n ELSE 0
       IN  [i \in 1..(IF n <= Len(v) THEN n ELSE Len(v)) |->
              [ev |-> "release", pin |-> v[i]]]
           \o (IF n > Len(v) THEN <<[ev |-> "out_of_range", pin |-> NoPin]>>
               ELSE <<>>)
           \o ReleaseEvents(fr, Tail(ops))

RECURSIVE ReleaseOutcomes(_, _)
\* HotSpot's Release<Type>ArrayElements(a, buf, 0) copies buf into a and
\* frees buf.  On a NULL array handle it dereferences NULL resolving it,
\* and on a NULL buf it copies from address 0 (the JVM dies); on a
\* buf already freed the copy reads freed memory and the second free is
\* undefined: glibc aborts or it goes unnoticed.  An exception thrown by
\* vector::at leaves the native method and terminates the process.
ReleaseOutcomes(evs, st) ==
  IF evs = <<>> \/ st.crash # "none" THEN {st}
  ELSE LET e == Head(evs) IN
       CASE e.ev = "out_of_range" -> {[st EXCEPT !.crash = "out_of_range"]}
         [] e.pin.arr = NULL      -> {[st EXCEPT !.crash = "release_null_array"]}
         [] e.pin.buf = NULL      -> {[st EXCEPT !.crash = "release_null"]}
         [] ~e.pin.live           ->
               {[st EXCEPT !.crash = "double_free"]}
                 \cup ReleaseOutcomes(Tail(evs),
                                      [st EXCEPT !.heap[e.pin.arr] = e.pin.buf])
         [] OTHER ->
               ReleaseOutcomes(Tail(evs),
                               [st EXCEPT !.heap[e.pin.arr] = e.pin.buf])

\* The frame after the ops: every copy they release is no longer live.
Unpinned(fr, ops) ==
  [s \in DOMAIN fr |->
     [fr[s] EXCEPT !.vec = [i \in DOMAIN @ |->
        IF \E o \in Range(ops) : o.slot = s /\ i <= o.n
        THEN [@[i] EXCEPT !.live = FALSE] ELSE @[i]]]]

\* The slots of fr that still hold a live copy.
Leftover(fr) ==
  LET held == {s \in DOMAIN fr : \E i \in DOMAIN fr[s].vec : fr[s].vec[i].live}
  IN  [s \in held |-> fr[s]]

(***************************************************************************)
(* jerasure itself is not in this repository: what a call returns is taken *)
(* from the specification.  A decode, or building a decoding matrix, fails *)
(* (-1) when more than m devices are erased, and succeeds (0) otherwise;   *)
(* erasures_to_erased returns NULL in that case.                           *)
(***************************************************************************)
DecodeResult(E)     == IF Cardinality(E) > M THEN -1 ELSE 0
ErasuresToErasedOk(E) == Cardinality(E) <= M

\* Mutant: success taken to be result 1.
ResultToJbooleanInverted(result) == IF result = 1 THEN "JNI_TRUE" ELSE "JNI_FALSE"

\* `if(result == 0) return JNI_TRUE; return JNI_FALSE;`
ResultToJboolean(result) == IF result = 0 THEN "JNI_TRUE" ELSE "JNI_FALSE"

\* A DeviceSet: k data and m coding buffers, distinct (spec section 3).
DataArgs    == {d \in [1..K -> ByteArrays] : IsInjective(d)}
CodingArgs  == {c \in [1..M -> ByteArrays] : IsInjective(c)}
ErasureLists == {E \in SUBSET Devices : Cardinality(E) <= M + 1}
DataErased(E)   == E \cap 1..K
CodingErased(E) == {d - K : d \in E \ 1..K}

\* Undefined behaviour of jerasure reading released or NULL device copies.
ReadUnpinnedOutcomes == {"crash", "garbage"}

NoFrame == [s \in {} |-> NoPin]
NoCall  == [h |-> "none", lib |-> "none", ret |-> "void", exc |-> FALSE,
            outs |-> {}, g |-> 0]

\* The arrays of the slots ss of a frame, and the copies it still holds.
ArraysOf(fr, ss) == UNION {Range(fr[s].arrs) : s \in DOMAIN fr \cap ss}
PinsOf(fr, ss) == UNION {Range(fr[s].vec) : s \in DOMAIN fr \cap ss}
Held(fr, ss) == {p.arr : p \in {q \in PinsOf(fr, ss) : q.live}}

\* Slots a method never writes: jerasure reads them, and a coding matrix
\* is shared read-only by concurrent calls.
SharedSlots == {"matrix", "bitmatrix", "erasures", "x", "y"}
AllSlots    == {"matrix", "bitmatrix", "erasures", "data", "coding", "parity",
                "decoding_matrix", "dm_ids", "erased", "x", "y", "matrix_inout",
                "r1", "r2", "r3", "region"}

\* The sources of galois_region_xor: spec section 7 XORs into one of them
\* (regionXor(dest, tmp, dest, n)), so they may be the destination array.
XorSources  == {"r1", "r2"}

\* The caller's side of the contract (the DeviceSet and the decoding
\* matrix are the call's own): the arrays of the other slots are pairwise
\* distinct, are not a matrix of the same call, and no other thread's call
\* holds a copy of them; a shared matrix is not written by another call.
\* Only the sources of an XOR may alias the call's other arrays.
CallerOwns(t, fr) ==
  LET own == [s \in DOMAIN fr \ (SharedSlots \cup XorSources) |-> fr[s].arrs]
  IN  /\ \A s1, s2 \in DOMAIN own :
           /\ IsInjective(own[s1])
           /\ s1 # s2 => Range(own[s1]) \cap Range(own[s2]) = {}
      /\ ArraysOf(fr, AllSlots \ SharedSlots) \cap ArraysOf(fr, SharedSlots) = {}
      /\ \A u \in Threads \ {t} :
           /\ ArraysOf(fr, AllSlots \ SharedSlots) \cap Held(frame[u], AllSlots) = {}
           /\ ArraysOf(fr, SharedSlots) \cap Held(frame[u], AllSlots \ SharedSlots) = {}

\* Thread t, back in Java, calls native method h.
Idle(t, h) == h \in Methods /\ pc[t] = "idle" /\ crash = "none"

Crash(cause) ==
  /\ crash' = cause
  /\ UNCHANGED <<heap, gen, pc, frame, native, call>>

(***************************************************************************)
(* The throw helpers of javautility.cpp.  throwOutOfMemoryError and        *)
(* throwIllegalArgumentException look their class up with FindClass and    *)
(* ThrowNew it; when FindClass returns NULL they call throwNoClassDefError, *)
(* which looks up NoClassDefFoundError and, when that returns NULL too,    *)
(* calls itself with the same arguments.  HotSpot's FindClass returns NULL *)
(* at once while an exception is pending (its first internal call is       *)
(* CHECK_NULL), so a helper called with one pending never gets out of the  *)
(* recursion: without tail calls it overflows the native stack, with them  *)
(* (`return throwNoClassDefError(...)` is one) the thread spins for ever.  *)
(***************************************************************************)
\* Mutant: a misspelt class name; FindClass never finds it.
ThrowOutcomesClassMissing(pending) == {"stack_overflow", "spin"}

ThrowOutcomes(pending) ==
  IF ~pending THEN {"thrown"} ELSE {"stack_overflow", "spin"}

\* jerasure built its result and the method returns NULL: New<Type>Array
\* failed, and its OutOfMemoryError is pending when the method throws.
NewArrayFailed(lib, ret) == lib = "ok" /\ ret = "NULL"

\* The entry step of a native method: t now holds the frame fr; `lib` is
\* what jerasure did ("none": not called), `ret` the value the method will
\* return and `exc` whether it calls a throw helper ("hang": it never
\* returns from it).  `outs` are the arrays whose copies jerasure wrote
\* (generation g).
Enter(t, h, fr, lib, ret, exc, nat, g) ==
  /\ CallerOwns(t, fr)
  /\ \E o \in IF exc THEN ThrowOutcomes(NewArrayFailed(lib, ret)) ELSE {"none"} :
       IF o = "stack_overflow" THEN Crash("stack_overflow")
       ELSE
       /\ pc'     = [pc EXCEPT ![t] = h]
       /\ frame'  = [frame EXCEPT ![t] = fr]
       /\ call'   = [call EXCEPT ![t] =
                      [h |-> h, lib |-> lib, exc |-> exc, g |-> g,
                       ret |-> IF o = "spin" THEN "hang" ELSE ret,
                       outs |-> IF g = gen THEN {}
                                ELSE {p.arr : p \in {q \in PinsOf(fr, AllSlots) :
                                                        q.buf = g}}]]
       /\ native' = [native EXCEPT ![t] = nat]
       /\ gen'    = g
       /\ UNCHANGED <<heap, crash>>

(***************************************************************************)
(* Java_..._jerasure_1matrix_1to_1bitmatrix: Get the matrix; if it was     *)
(* copied, build the bitmatrix (NULL when jerasure's malloc fails) and a   *)
(* new int[] for it; throw OutOfMemoryError on any NULL.                   *)
(***************************************************************************)
\* Mutant: the OutOfMemoryError for a failed NewIntArray is not thrown.
NewArrayCallSilent(t, h, fr, run, built, newOk) ==
  CASE ~run   -> Enter(t, h, fr, "none", "NULL", TRUE, FALSE, gen)
    [] ~built -> Enter(t, h, fr, "failed", "NULL", TRUE, FALSE, gen)
    [] ~newOk -> Enter(t, h, fr, "ok", "NULL", FALSE, FALSE, gen)
    [] OTHER  -> Enter(t, h, fr, "ok", "array", FALSE, FALSE, gen)

\* The builders' common shape: when `run`, call the jerasure builder (NULL
\* when it fails), copy its matrix into a new int[] (NULL when the JVM is
\* out of memory), free it; throw on any NULL (IllegalArgumentException
\* or OutOfMemoryError) and return the new array or NULL.
NewArrayCall(t, h, fr, run, built, newOk) ==
  CASE ~run   -> Enter(t, h, fr, "none", "NULL", TRUE, FALSE, gen)
    [] ~built -> Enter(t, h, fr, "failed", "NULL", TRUE, FALSE, gen)
    [] ~newOk -> Enter(t, h, fr, "ok", "NULL", TRUE, FALSE, gen)
    [] OTHER  -> Enter(t, h, fr, "ok", "array", FALSE, FALSE, gen)

matrix_to_bitmatrix(t) ==
  /\ Idle(t, "matrix_to_bitmatrix")
  /\ \E mx \in IntArrays, ok \in GetResults, built, newOk \in NewResults :
       LET matrix == GetElements(mx, ok)
       IN  NewArrayCall(t, "matrix_to_bitmatrix", "matrix" :> matrix,
                        Got(matrix), built, newOk)

MatrixToBitmatrixReleases == <<Rel("matrix")>>

(***************************************************************************)
(* Java_..._jerasure_1do_1parity: Get the parity device and the k data     *)
(* devices; XOR the data into the parity copy, or throw.                   *)
(***************************************************************************)
do_parity(t) ==
  /\ Idle(t, "do_parity")
  /\ gen < MaxGen
  /\ \E p \in ByteArrays, d \in DataArgs, ok \in GetResults, j \in FailAt(K) :
       LET parity == GetElements(p, ok)
           data   == getArrayOfByteArrays(d, j)
       IN  IF Got(parity) /\ Got(data)
           THEN Enter(t, "do_parity",
                      "parity" :> Fill(parity, {1}, gen + 1) @@ "data" :> data,
                      "ok", "void", FALSE, FALSE, gen + 1)
           ELSE Enter(t, "do_parity", "parity" :> parity @@ "data" :> data,
                      "none", "void", TRUE, FALSE, gen)

\* Mutant: the parity copy is never released.
DoParityReleasesNoParity == <<Free("data", K)>>

DoParityReleases == <<Rel("parity"), Free("data", K)>>

(***************************************************************************)
(* The encoders: Get the matrix, the k data and the m coding devices, run  *)
(* jerasure when the guard holds (it writes the coding copies), otherwise  *)
(* throw.  When the guard lets jerasure run on data it could not copy, it  *)
(* reads released or NULL native copies: the process faults, or coding is  *)
(* computed from garbage.                                                  *)
(***************************************************************************)
EncodeCall(t, h, fr, run, dataOk) ==
  IF ~run
  THEN Enter(t, h, fr, "none", "void", TRUE, FALSE, gen)
  ELSE \E ub \in IF dataOk THEN {"garbage"} ELSE ReadUnpinnedOutcomes :
         IF ub = "crash"
         THEN CallerOwns(t, fr) /\ Crash("jerasure_read_unpinned")
         ELSE Enter(t, h,
                    [fr EXCEPT !["coding"] = Fill(@, DOMAIN @.vec, gen + 1)],
                    IF dataOk THEN "ok" ELSE "read_unpinned",
                    "void", FALSE, FALSE, gen + 1)

\* `if(matrix != NULL && getCodingDevices && getCodingDevices)`
MatrixEncodeGuard(matrix, data, coding) ==
  Got(matrix) /\ Got(coding) /\ Got(coding)

matrix_encode(t) ==
  /\ Idle(t, "matrix_encode")
  /\ gen < MaxGen
  /\ \E mx \in IntArrays, d \in DataArgs, c \in CodingArgs, ok \in GetResults,
        jd \in FailAt(K), jc \in FailAt(M) :
       LET matrix == GetElements(mx, ok)
           data   == getArrayOfByteArrays(d, jd)
           coding == getArrayOfByteArrays(c, jc)
       IN  EncodeCall(t, "matrix_encode",
                      "matrix" :> matrix @@ "data" :> data @@ "coding" :> coding,
                      MatrixEncodeGuard(matrix, data, coding), Got(data))

MatrixEncodeReleases == <<Rel("matrix"), Free("data", K), Free("coding", M)>>

\* `if(bitmatrix != NULL && getDataDevices && getCodingDevices)`
BitmatrixEncodeGuard(bitmatrix, data, coding) ==
  Got(bitmatrix) /\ Got(data) /\ Got(coding)

bitmatrix_encode(t) ==
  /\ Idle(t, "bitmatrix_encode")
  /\ gen < MaxGen
  /\ \E bm \in IntArrays, d \in DataArgs, c \in CodingArgs, ok \in GetResults,
        jd \in FailAt(K), jc \in FailAt(M) :
       LET bitmatrix == GetElements(bm, ok)
           data      == getArrayOfByteArrays(d, jd)
           coding    == getArrayOfByteArrays(c, jc)
       IN  EncodeCall(t, "bitmatrix_encode",
                      "bitmatrix" :> bitmatrix @@ "data" :> data @@ "coding" :> coding,
                      BitmatrixEncodeGuard(bitmatrix, data, coding), Got(data))

BitmatrixEncodeReleases == <<Rel("bitmatrix"), Free("data", K), Free("coding", M)>>

(***************************************************************************)
(* The decoders: Get the (bit)matrix, the erasure list, the data and the   *)
(* coding devices; jerasure rewrites the erased devices' copies and        *)
(* returns 0, or returns -1; result stays -1 when the method throws.       *)
(***************************************************************************)
DecodeCall(t, h, fr, run, E) ==
  LET result == IF run THEN DecodeResult(E) ELSE -1
  IN  IF run /\ result = 0
      THEN Enter(t, h,
                 [fr EXCEPT !["data"]   = Fill(@, DataErased(E), gen + 1),
                            !["coding"] = Fill(@, CodingErased(E), gen + 1)],
                 "ok", ResultToJboolean(result), FALSE, FALSE, gen + 1)
      ELSE Enter(t, h, fr, IF run THEN "failed" ELSE "none",
                 ResultToJboolean(result), ~run, FALSE, gen)

matrix_decode(t) ==
  /\ Idle(t, "matrix_decode")
  /\ gen < MaxGen
  /\ \E mx, er \in IntArrays, d \in DataArgs, c \in CodingArgs, E \in ErasureLists,
        oke, okm \in GetResults, jd \in FailAt(K), jc \in FailAt(M) :
       LET erasures == GetElements(er, oke)
           matrix   == GetElements(mx, okm)
           data     == getArrayOfByteArrays(d, jd)
           coding   == getArrayOfByteArrays(c, jc)
       IN  DecodeCall(t, "matrix_decode",
                      "erasures" :> erasures @@ "matrix" :> matrix
                        @@ "data" :> data @@ "coding" :> coding,
                      Got(erasures) /\ Got(matrix) /\ Got(data) /\ Got(coding), E)

MatrixDecodeReleases ==
  <<Rel("matrix"), Rel("erasures"), Free("data", K), Free("coding", M)>>

bitmatrix_decode(t) ==
  /\ Idle(t, "bitmatrix_decode")
  /\ gen < MaxGen
  /\ \E bm, er \in IntArrays, d \in DataArgs, c \in CodingArgs, E \in ErasureLists,
        okb, oke \in GetResults, jd \in FailAt(K), jc \in FailAt(M) :
       LET bitmatrix == GetElements(bm, okb)
           erasures  == GetElements(er, oke)
           data      == getArrayOfByteArrays(d, jd)
           coding    == getArrayOfByteArrays(c, jc)
       IN  DecodeCall(t, "bitmatrix_decode",
                      "bitmatrix" :> bitmatrix @@ "erasures" :> erasures
                        @@ "data" :> data @@ "coding" :> coding,
                      Got(bitmatrix) /\ Got(erasures) /\ Got(data) /\ Got(coding), E)

BitmatrixDecodeReleases ==
  <<Rel("bitmatrix"), Rel("erasures"), Free("data", K), Free("coding", M)>>

(***************************************************************************)
(* The decoding-matrix builders: talloc the int erased[k+m], Get the       *)
(* erased vector, the matrix, the decoding matrix and dm_ids (in each      *)
(* method's own order), convert erased, run jerasure (it writes the        *)
(* decoding matrix and dm_ids and returns 0, or returns -1) or throw.      *)
(***************************************************************************)
MakeDecodingCall(t, h, fr, run, E, nat) ==
  LET result == IF run THEN DecodeResult(E) ELSE -1
  IN  IF run /\ result = 0
      THEN Enter(t, h,
                 [fr EXCEPT !["decoding_matrix"] = Fill(@, {1}, gen + 1),
                            !["dm_ids"]          = Fill(@, {1}, gen + 1)],
                 "ok", ResultToJboolean(result), FALSE, nat, gen + 1)
      ELSE Enter(t, h, fr, IF run THEN "failed" ELSE "none",
                 ResultToJboolean(result), ~run, nat, gen)

make_decoding_matrix(t) ==
  /\ Idle(t, "make_decoding_matrix")
  /\ gen < MaxGen
  /\ \E z \in BoolArrays, mx, dmx, ids \in IntArrays, E \in ErasureLists,
        nat, okz, okm, okd, oki \in GetResults :
       LET erasedj         == GetElements(z, okz)
           matrix          == GetElements(mx, okm)
           decoding_matrix == GetElements(dmx, okd)
           dm_ids          == GetElements(ids, oki)
       IN  MakeDecodingCall(t, "make_decoding_matrix",
                            "erased" :> erasedj @@ "matrix" :> matrix
                              @@ "decoding_matrix" :> decoding_matrix
                              @@ "dm_ids" :> dm_ids,
                            Got(matrix) /\ nat /\ Got(erasedj) /\ Got(matrix)
                              /\ Got(decoding_matrix) /\ Got(dm_ids),
                            E, nat)

\* Mutant: dm_ids is never released.
MakeDecodingMatrixReleasesNoIds ==
  <<Rel("erased"), Rel("matrix"), Rel("decoding_matrix"), FreeErased>>

MakeDecodingMatrixReleases ==
  <<Rel("erased"), Rel("matrix"), Rel("decoding_matrix"), Rel("dm_ids"), FreeErased>>

make_decoding_bitmatrix(t) ==
  /\ Idle(t, "make_decoding_bitmatrix")
  /\ gen < MaxGen
  /\ \E z \in BoolArrays, mx, dmx, ids \in IntArrays, E \in ErasureLists,
        nat, okz, oki, okd, okm \in GetResults :
       LET erasedj         == GetElements(z, okz)
           dm_ids          == GetElements(ids, oki)
           decoding_matrix == GetElements(dmx, okd)
           matrix          == GetElements(mx, okm)
       IN  MakeDecodingCall(t, "make_decoding_bitmatrix",
                            "erased" :> erasedj @@ "dm_ids" :> dm_ids
                              @@ "decoding_matrix" :> decoding_matrix
                              @@ "matrix" :> matrix,
                            Got(erasedj) /\ nat /\ Got(dm_ids)
                              /\ Got(decoding_matrix) /\ Got(matrix),
                            E, nat)

MakeDecodingBitmatrixReleases ==
  <<FreeErased, Rel("erased"), Rel("dm_ids"), Rel("decoding_matrix"), Rel("matrix")>>

(***************************************************************************)
(* Java_..._jerasure_1erasures_1to_1erased: Get the erasure list; build    *)
(* the int vector (NULL for more than m erasures or when malloc fails), a  *)
(* new boolean[k+m], Get its elements and write them unchecked; throw on   *)
(* the NULLs it checks.  `result` is left uninitialized on every path that *)
(* throws before NewBooleanArray.                                          *)
(***************************************************************************)
erasures_to_erased(t) ==
  /\ Idle(t, "erasures_to_erased")
  /\ \E er \in IntArrays, E \in ErasureLists, ok, mallocOk, okv \in GetResults,
        newOk \in NewResults :
       LET h  == "erasures_to_erased"
           fr == "erasures" :> GetElements(er, ok)
       IN  CASE ~ok -> Enter(t, h, fr, "none", "uninitialized", TRUE, FALSE, gen)
             [] ~(mallocOk /\ ErasuresToErasedOk(E)) ->
                   Enter(t, h, fr, "failed", "uninitialized", TRUE, FALSE, gen)
             [] ~newOk -> Enter(t, h, fr, "ok", "NULL", TRUE, FALSE, gen)
             [] ~okv   -> Crash("null_write")
             [] OTHER  -> Enter(t, h, fr, "ok", "array", FALSE, FALSE, gen)

ErasuresToErasedReleases == <<Rel("erasures")>>

(***************************************************************************)
(* JCauchy.cpp.  The matrix builders check w and k + m before calling      *)
(* jerasure (`1 << w` is only evaluated for w < 31).  cauchy_xy Gets x and *)
(* y and releases both whatever happened.  cauchy_improve Gets the matrix, *)
(* returns at once (throwing) when it is NULL, else improves it in place   *)
(* and releases it.  cauchy_good_general returns NULL without throwing     *)
(* when jerasure fails, which it does when k + m > 2^w.                    *)
(***************************************************************************)
CauchyArgsOk(w) == ~(w < 31 /\ K + M > 2^w)

cauchy_original_coding_matrix(t) ==
  /\ Idle(t, "cauchy_original_coding_matrix")
  /\ \E w \in WordSizes, built, newOk \in NewResults :
       NewArrayCall(t, "cauchy_original_coding_matrix", NoFrame,
                    CauchyArgsOk(w), built, newOk)

cauchy_xy_coding_matrix(t) ==
  /\ Idle(t, "cauchy_xy_coding_matrix")
  /\ \E jx, jy \in IntArrays, okx, oky \in GetResults, built, newOk \in NewResults :
       LET x == GetElements(jx, okx)
           y == GetElements(jy, oky)
       IN  NewArrayCall(t, "cauchy_xy_coding_matrix", "x" :> x @@ "y" :> y,
                        Got(x) /\ Got(y), built, newOk)

CauchyXyReleases == <<Rel("x"), Rel("y")>>

cauchy_improve_coding_matrix(t) ==
  /\ Idle(t, "cauchy_improve_coding_matrix")
  /\ gen < MaxGen
  /\ \E mx \in IntArrays, ok \in GetResults :
       LET h      == "cauchy_improve_coding_matrix"
           matrix == GetElements(mx, ok)
       IN  IF Got(matrix)
           THEN Enter(t, h, "matrix_inout" :> Fill(matrix, {1}, gen + 1),
                      "ok", "void", FALSE, FALSE, gen + 1)
           ELSE Enter(t, h, NoFrame, "none", "void", TRUE, FALSE, gen)

\* Mutant: the improved copy is never released back to the Java matrix.
CauchyImproveReleasesMissing == <<>>

CauchyImproveReleases == <<Rel("matrix_inout")>>

\* jerasure's cauchy_good_general_coding_matrix fails on the arguments
\* cauchy_original_coding_matrix rejects, or when malloc fails.
cauchy_good_general_coding_matrix(t) ==
  /\ Idle(t, "cauchy_good_general_coding_matrix")
  /\ \E w \in WordSizes, malloced, newOk \in NewResults :
       LET h == "cauchy_good_general_coding_matrix" IN
       CASE ~(CauchyArgsOk(w) /\ malloced) ->
               Enter(t, h, NoFrame, "failed", "NULL", FALSE, FALSE, gen)
         [] ~newOk -> Enter(t, h, NoFrame, "ok", "NULL", TRUE, FALSE, gen)
         [] OTHER  -> Enter(t, h, NoFrame, "ok", "array", FALSE, FALSE, gen)

(***************************************************************************)
(* JLiberation.cpp: the three bitmatrix builders, k <= w (k <= 8 for       *)
(* liber8tion) checked before jerasure is called.                          *)
(***************************************************************************)
liberation_coding_bitmatrix(t) ==
  /\ Idle(t, "liberation_coding_bitmatrix")
  /\ \E w \in WordSizes, built, newOk \in NewResults :
       NewArrayCall(t, "liberation_coding_bitmatrix", NoFrame, K <= w, built, newOk)

liber8tion_coding_bitmatrix(t) ==
  /\ Idle(t, "liber8tion_coding_bitmatrix")
  /\ \E built, newOk \in NewResults :
       NewArrayCall(t, "liber8tion_coding_bitmatrix", NoFrame, K <= 8, built, newOk)

blaum_roth_coding_bitmatrix(t) ==
  /\ Idle(t, "blaum_roth_coding_bitmatrix")
  /\ \E w \in WordSizes, built, newOk \in NewResults :
       NewArrayCall(t, "blaum_roth_coding_bitmatrix", NoFrame, K <= w, built, newOk)

(***************************************************************************)
(* JGalois.cpp, the region operations.  galois_region_xor Gets r1, r2 and  *)
(* r3, XORs r1 and r2 into r3 only when all three were copied (silently    *)
(* doing nothing otherwise) and releases all three.  The region multiplies *)
(* Get the region (returning, throwing, when it is NULL) and, when jr2 is  *)
(* not NULL, r2 (throwing, releasing the region and returning when that is *)
(* NULL); jerasure writes r2, or the region in place when r2 is NULL; then *)
(* both are released, jr2 even when it is NULL.                            *)
(***************************************************************************)
galois_region_xor(t) ==
  /\ Idle(t, "galois_region_xor")
  /\ gen < MaxGen
  /\ \E a1, a2, a3 \in ByteArrays, ok1, ok2, ok3 \in GetResults :
       LET fr == "r1" :> GetElements(a1, ok1) @@ "r2" :> GetElements(a2, ok2)
                   @@ "r3" :> GetElements(a3, ok3)
       IN  IF Got(fr["r1"]) /\ Got(fr["r2"]) /\ Got(fr["r3"])
           THEN Enter(t, "galois_region_xor", [fr EXCEPT !["r3"] = Fill(@, {1}, gen + 1)],
                      "ok", "void", FALSE, FALSE, gen + 1)
           ELSE Enter(t, "galois_region_xor", fr, "none", "void", FALSE, FALSE, gen)

\* Mutant: the destination is released before the sources.
GaloisRegionXorReleasesDestFirst == <<Rel("r3"), Rel("r1"), Rel("r2")>>

\* r3 is released last: when r1 or r2 is the same array as r3, the stale
\* source copy is written back before the result.
GaloisRegionXorReleases == <<Rel("r1"), Rel("r2"), Rel("r3")>>

\* The slot of a jbyteArray argument that is NULL: releasing it hands
\* HotSpot a NULL array handle.
NullArraySlot == [arrs |-> <<NULL>>, vec |-> <<NoPin>>]

RegionMultiply(t, h) ==
  /\ Idle(t, h)
  /\ gen < MaxGen
  /\ \E rg \in ByteArrays, jr2 \in ByteArrays \cup {NULL}, ok, ok2 \in GetResults :
       LET region == GetElements(rg, ok)
           r2     == IF jr2 = NULL THEN NullArraySlot ELSE GetElements(jr2, ok2)
       IN  CASE ~Got(region) -> Enter(t, h, NoFrame, "none", "void", TRUE, FALSE, gen)
             [] jr2 # NULL /\ ~Got(r2) ->
                   Enter(t, h, "region" :> region, "none", "void", TRUE, FALSE, gen)
             [] jr2 = NULL ->
                   Enter(t, h, "region" :> Fill(region, {1}, gen + 1) @@ "r2" :> r2,
                         "ok", "void", FALSE, FALSE, gen + 1)
             [] OTHER ->
                   Enter(t, h, "region" :> region @@ "r2" :> Fill(r2, {1}, gen + 1),
                         "ok", "void", FALSE, FALSE, gen + 1)

galois_w08_region_multiply(t) == RegionMultiply(t, "galois_w08_region_multiply")
galois_w16_region_multiply(t) == RegionMultiply(t, "galois_w16_region_multiply")
galois_w32_region_multiply(t) == RegionMultiply(t, "galois_w32_region_multiply")

RegionMultiplyReleases == <<Rel("region"), Rel("r2")>>

(***************************************************************************)
(* JReedSolomon.cpp.  The Vandermonde builders check k <= m, resp.         *)
(* rows <= cols, and r6_coding_matrix w in {8, 16, 32}, before calling     *)
(* jerasure.  r6_encode Gets k data and 2 coding devices and reports       *)
(* success when jerasure returns 1.  The region_multby_2 methods Get the   *)
(* region, return (throwing) when it is NULL, else double it in place and  *)
(* release it.                                                             *)
(***************************************************************************)
reed_sol_vandermonde_coding_matrix(t) ==
  /\ Idle(t, "reed_sol_vandermonde_coding_matrix")
  /\ \E built, newOk \in NewResults :
       NewArrayCall(t, "reed_sol_vandermonde_coding_matrix", NoFrame, K <= M,
                    built, newOk)

\* The row and column counts passed: k + m rows over k columns, or the
\* transpose.
RowCols == {<<K + M, K>>, <<K, K + M>>}

reed_sol_extended_vandermonde_matrix(t) ==
  /\ Idle(t, "reed_sol_extended_vandermonde_matrix")
  /\ \E rc \in RowCols, built, newOk \in NewResults :
       NewArrayCall(t, "reed_sol_extended_vandermonde_matrix", NoFrame,
                    rc[1] <= rc[2], built, newOk)

reed_sol_big_vandermonde_distribution_matrix(t) ==
  /\ Idle(t, "reed_sol_big_vandermonde_distribution_matrix")
  /\ \E rc \in RowCols, built, newOk \in NewResults :
       NewArrayCall(t, "reed_sol_big_vandermonde_distribution_matrix", NoFrame,
                    rc[1] <= rc[2], built, newOk)

\* The widths reed_sol_r6_coding_matrix accepts (`w == 8 || w == 16 ||
\* w == 32`); jerasure's reed_sol_r6_encode (spec section 4) returns 1 for
\* them and 0 for any other w.
R6Widths == {8, 16, 32}
R6EncodeResult(w) == IF w \in R6Widths THEN 1 ELSE 0

reed_sol_r6_coding_matrix(t) ==
  /\ Idle(t, "reed_sol_r6_coding_matrix")
  /\ \E w \in WordSizes \cup {8}, built, newOk \in NewResults :
       NewArrayCall(t, "reed_sol_r6_coding_matrix", NoFrame, w \in R6Widths,
                    built, newOk)

\* Mutant: success taken to be result 0, as in the JJerasure methods.
R6ResultToJbooleanZero(result) == IF result = 0 THEN "JNI_TRUE" ELSE "JNI_FALSE"

\* `if(result == 1) return JNI_TRUE; return JNI_FALSE;`
R6ResultToJboolean(result) == IF result = 1 THEN "JNI_TRUE" ELSE "JNI_FALSE"

R6CodingArgs == {c \in [1..2 -> ByteArrays] : IsInjective(c)}

reed_sol_r6_encode(t) ==
  /\ Idle(t, "reed_sol_r6_encode")
  /\ gen < MaxGen
  /\ \E d \in DataArgs, c \in R6CodingArgs, w \in WordSizes \cup {8},
        jd \in FailAt(K), jc \in FailAt(2) :
       LET h      == "reed_sol_r6_encode"
           fr     == "data" :> getArrayOfByteArrays(d, jd)
                       @@ "coding" :> getArrayOfByteArrays(c, jc)
           run    == Got(fr["data"]) /\ Got(fr["coding"])
           result == IF run THEN R6EncodeResult(w) ELSE 0
       IN  IF result = 1
           THEN Enter(t, h, [fr EXCEPT !["coding"] = Fill(@, DOMAIN @.vec, gen + 1)],
                      "ok", R6ResultToJboolean(result), FALSE, FALSE, gen + 1)
           ELSE Enter(t, h, fr, IF run THEN "failed" ELSE "none",
                      R6ResultToJboolean(result), ~run, FALSE, gen)

R6EncodeReleases == <<Free("data", K), Free("coding", 2)>>

RegionMultby2(t, h) ==
  /\ Idle(t, h)
  /\ gen < MaxGen
  /\ \E rg \in ByteArrays, ok \in GetResults :
       LET region == GetElements(rg, ok)
       IN  IF Got(region)
           THEN Enter(t, h, "region" :> Fill(region, {1}, gen + 1),
                      "ok", "void", FALSE, FALSE, gen + 1)
           ELSE Enter(t, h, NoFrame, "none", "void", TRUE, FALSE, gen)

reed_sol_galois_w08_region_multby_2(t) == RegionMultby2(t, "reed_sol_galois_w08_region_multby_2")
reed_sol_galois_w16_region_multby_2(t) == RegionMultby2(t, "reed_sol_galois_w16_region_multby_2")
reed_sol_galois_w32_region_multby_2(t) == RegionMultby2(t, "reed_sol_galois_w32_region_multby_2")

RegionMultby2Releases == <<Rel("region")>>

(***************************************************************************)
(* JJerasure.cpp ends with prototypes of native methods the Java class     *)
(* declares but the library never defines.  A call to one never enters     *)
(* native code: the JVM cannot link it and throws UnsatisfiedLinkError.    *)
(***************************************************************************)
unsatisfied_link(t) ==
  /\ \E h \in Unimplemented :
       /\ Idle(t, h)
       /\ call' = [call EXCEPT ![t] = [NoCall EXCEPT !.h = h, !.exc = TRUE]]
  /\ UNCHANGED <<heap, gen, pc, frame, native, crash>>

Releases(h) ==
  CASE h = "matrix_to_bitmatrix"     -> MatrixToBitmatrixReleases
    [] h = "do_parity"               -> DoParityReleases
    [] h = "matrix_encode"           -> MatrixEncodeReleases
    [] h = "bitmatrix_encode"        -> BitmatrixEncodeReleases
    [] h = "matrix_decode"           -> MatrixDecodeReleases
    [] h = "bitmatrix_decode"        -> BitmatrixDecodeReleases
    [] h = "make_decoding_matrix"    -> MakeDecodingMatrixReleases
    [] h = "make_decoding_bitmatrix" -> MakeDecodingBitmatrixReleases
    [] h = "erasures_to_erased"      -> ErasuresToErasedReleases
    [] h = "cauchy_xy_coding_matrix" -> CauchyXyReleases
    [] h = "cauchy_improve_coding_matrix" -> CauchyImproveReleases
    [] h = "galois_region_xor"       -> GaloisRegionXorReleases
    [] h \in RegionMultiplies        -> RegionMultiplyReleases
    [] h = "reed_sol_r6_encode"      -> R6EncodeReleases
    [] h \in RegionMultbys           -> RegionMultby2Releases
    [] OTHER                         -> <<>>

\* HotSpot's native wrapper resolves a returned jobject before it looks at
\* the pending exception: an uninitialized handle that is garbage faults.
UninitializedResultOutcomes == {"none", "uninitialized_result"}

(***************************************************************************)
(* The return step: the method's releases in source order, then the        *)
(* return to Java.                                                         *)
(***************************************************************************)
Return(t) ==
  /\ pc[t] # "idle"
  /\ crash = "none"
  /\ call[t].ret # "hang"
  /\ LET ops == Releases(pc[t]) IN
     \E o \in ReleaseOutcomes(ReleaseEvents(frame[t], ops),
                              [heap |-> heap, crash |-> "none"]),
        u \in IF call[t].ret = "uninitialized" THEN UninitializedResultOutcomes
              ELSE {"none"} :
       LET dead == IF o.crash # "none" THEN o.crash ELSE u IN
       /\ heap'   = o.heap
       /\ crash'  = dead
       /\ pc'     = [pc EXCEPT ![t] = IF dead = "none" THEN "idle" ELSE @]
       /\ frame'  = [frame EXCEPT ![t] = Leftover(Unpinned(@, ops))]
       /\ native' = [native EXCEPT ![t] = @ /\ FreeErased \notin Range(ops)]
       /\ UNCHANGED <<gen, call>>

Init ==
  /\ heap   = [a \in Arrays |-> 0]
  /\ gen    = 0
  /\ pc     = [t \in Threads |-> "idle"]
  /\ frame  = [t \in Threads |-> NoFrame]
  /\ native = [t \in Threads |-> FALSE]
  /\ call   = [t \in Threads |-> NoCall]
  /\ crash  = "none"

Next ==
  \E t \in Threads :
    \/ matrix_to_bitmatrix(t)
    \/ do_parity(t)
    \/ matrix_encode(t)
    \/ bitmatrix_encode(t)
    \/ matrix_decode(t)
    \/ bitmatrix_decode(t)
    \/ make_decoding_matrix(t)
    \/ make_decoding_bitmatrix(t)
    \/ erasures_to_erased(t)
    \/ cauchy_original_coding_matrix(t)
    \/ cauchy_xy_coding_matrix(t)
    \/ cauchy_improve_coding_matrix(t)
    \/ cauchy_good_general_coding_matrix(t)
    \/ liberation_coding_bitmatrix(t)
    \/ liber8tion_coding_bitmatrix(t)
    \/ blaum_roth_coding_bitmatrix(t)
    \/ galois_region_xor(t)
    \/ galois_w08_region_multiply(t)
    \/ galois_w16_region_multiply(t)
    \/ galois_w32_region_multiply(t)
    \/ reed_sol_vandermonde_coding_matrix(t)
    \/ reed_sol_extended_vandermonde_matrix(t)
    \/ reed_sol_big_vandermonde_distribution_matrix(t)
    \/ reed_sol_r6_coding_matrix(t)
    \/ reed_sol_r6_encode(t)
    \/ reed_sol_galois_w08_region_multby_2(t)
    \/ reed_sol_galois_w16_region_multby_2(t)
    \/ reed_sol_galois_w32_region_multby_2(t)
    \/ unsatisfied_link(t)
    \/ Return(t)

Spec == Init /\ [][Next]_vars

\* What follows jerasure in a native method is straight-line code whose JNI
\* calls do not block, and the OS keeps running a runnable thread: a thread
\* that can finish its method eventually does.  Nothing makes a Java thread
\* call a native method, so the entry steps are not fair.
Fairness == \A t \in Threads : WF_vars(Return(t))

FairSpec == Spec /\ Fairness

-----------------------------------------------------------------------------
Returns  == {"JNI_TRUE", "JNI_FALSE", "array", "NULL", "void", "uninitialized", "hang"}

TypeOK ==
  /\ heap \in [Arrays -> Gen]
  /\ gen \in Gen
  /\ pc \in [Threads -> {"idle"} \cup Handlers]
  /\ \A t \in Threads : \A s \in DOMAIN frame[t] :
       /\ frame[t][s].arrs \in Seq(Arrays \cup {NULL})
       /\ frame[t][s].vec \in Seq(Pin)
       /\ Len(frame[t][s].vec) <= Len(frame[t][s].arrs)
  /\ native \in [Threads -> BOOLEAN]
  /\ \A t \in Threads :
       /\ call[t].h \in {"none"} \cup Handlers
       /\ call[t].lib \in {"none", "ok", "failed", "read_unpinned"}
       /\ call[t].ret \in Returns
       /\ call[t].exc \in BOOLEAN
       /\ call[t].outs \subseteq Arrays
       /\ call[t].g \in Gen
  /\ crash \in {"none"} \cup CrashCauses

(***************************************************************************)
(* Safety properties.                                                      *)
(***************************************************************************)

\* Every native copy a method took (Get<Type>ArrayElements, directly or in
\* getArrayOfByteArrays) and the talloc'd erased block are given back by the
\* time the method returns to Java, on the error paths as on the normal one:
\* the releases of freeArrayOfByteArrays and the method's own releases cover
\* exactly what was acquired.
NoPinLeak ==
  \A t \in Threads : pc[t] = "idle" =>
     /\ \A s \in DOMAIN frame[t] : \A i \in DOMAIN frame[t][s].vec :
          ~frame[t][s].vec[i].live
     /\ ~native[t]

\* What a method hands back lets Java tell what happened: either it throws,
\* or the value it returns (JNI_TRUE / JNI_FALSE from jerasure's result
\* code, a new array, NULL for a failed build, or nothing) matches what
\* jerasure did.  A method that
\* returns normally without having run jerasure hides a failure.
Reported(c) ==
  CASE c.ret \in {"JNI_TRUE", "array", "void"} -> c.lib = "ok"
    [] c.ret \in {"JNI_FALSE", "NULL"}         -> c.lib = "failed"
    [] OTHER                                   -> FALSE

CallOutcomeReported ==
  \A t \in Threads :
     (pc[t] = "idle" /\ call[t].h # "none") => (call[t].exc \/ Reported(call[t]))

\* What jerasure computed reaches Java: once a method that ran jerasure
\* successfully has returned, every array whose copy jerasure wrote holds
\* that output or a later one.  This is about the order and the modes of the
\* releases (Release<Type>ArrayElements mode 0, freeArrayOfByteArrays over
\* all n devices) and about concurrent calls on a shared coding matrix
\* copying stale content back over another call's output.
OutputsPublished ==
  \A t \in Threads :
     (pc[t] = "idle" /\ call[t].lib = "ok" /\ ~call[t].exc) =>
        \A a \in call[t].outs : heap[a] >= call[t].g

\* jerasure only ever runs on device copies the method holds: an encode
\* never reads a data copy that getArrayOfByteArrays released or never took.
JerasureInputsPinned ==
  /\ crash # "jerasure_read_unpinned"
  /\ \A t \in Threads : call[t].lib # "read_unpinned"

\* When the JVM cannot copy an array (Get<Type>ArrayElements returns NULL)
\* the method throws OutOfMemoryError (the `throwOutOfMemoryError` calls)
\* instead of taking the process down while it cleans up.
NoCrashOnFailedGet ==
  crash \notin {"release_null", "double_free", "out_of_range"}

\* No native method takes the JVM down.
NoNativeCrash == crash = "none"


\* A Reed-Solomon Vandermonde matrix exists for every k and m that fit the
\* field, k + m <= 2^w (spec section 8, Scenario B: k = 10, m = 4, w = 8):
\* when every w passed is large enough, the binding's
\* reed_sol_vandermonde_coding_matrix hands each build to jerasure instead
\* of refusing it with IllegalArgumentException.
VandermondeArgsAccepted ==
  (\A w \in WordSizes : K + M <= 2^w) =>
     \A t \in Threads :
        call[t].h = "reed_sol_vandermonde_coding_matrix" => call[t].lib # "none"

\* Every native method a Java thread enters returns to Java unless the JVM
\* dies: after jerasure come only releases, the throw helpers and the
\* return.  A throw helper that never gets out of its FindClass /
\* throwNoClassDefError recursion leaves its thread inside the method.
CallsReturn ==
  \A t \in Threads : pc[t] # "idle" ~> (pc[t] = "idle" \/ crash # "none")

=============================================================================
