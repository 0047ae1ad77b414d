--------------------------- MODULE MCGaloisField ---------------------------
(* Java callers invoking the single-value methods of JGalois.cpp: one per  *)
(* w in Widths and first argument x1, trying every second argument x2 in   *)
(* turn, so that every pair of field elements is checked.  The same pair  *)
(* is the data of the small erasure codes built from the Cauchy matrices, *)
(* and of a store of k = 2 data and m = 2 coding devices that the caller   *)
(* encodes on every write, loses devices of, and repairs by matrix_decode. *)
EXTENDS ErasureCode

VARIABLES
  width, x1, x2,
  devices,   \* the store's devices: 0, 1 data, 2, 3 coding
  erased,    \* the store's devices lost since the last write or repair
  readback   \* the data a reader of the store recovers after the last step

vars == <<width, x1, x2, devices, erased, readback>>

StoreK == 2
StoreM == 2

\* The store's coding matrix, as cauchy_original_coding_matrix hands it to Java.
StoreMatrix == cauchy_original_coding_matrix(StoreK, StoreM, width)

DataIds   == 0..(StoreK - 1)
CodingIds == StoreK..(StoreK + StoreM - 1)

\* freeArrayOfByteArrays over the copies of the devices ids: each
\* ReleaseByteArrayElements(..., 0) copies its buffer back into the array.
FreeArrayOfByteArrays(java, copies, ids) ==
  [d \in DOMAIN java |-> IF d \in ids THEN copies[d] ELSE java[d]]

\* Java_..._jerasure_1matrix_1encode on the store's devices, every Get
\* succeeding: jerasure computes the coding copies from the data copies,
\* then the data and the coding copies are released in that order.
matrix_encode(java) ==
  LET copies == Devices(StoreK, StoreM, width, StoreMatrix, [i \in DataIds |-> java[i]])
  IN  FreeArrayOfByteArrays(FreeArrayOfByteArrays(java, copies, DataIds), copies, CodingIds)

\* Mutant: the coding copies are never released, so the coding devices
\* jerasure rebuilt stay in native memory.
matrix_decode_no_coding_free(E) ==
  LET r == MatrixDecode(StoreK, StoreM, width, StoreMatrix, E, devices)
  IN  [devices |-> FreeArrayOfByteArrays(devices, r.devices, DataIds),
       result  |-> IF r.ok THEN 0 ELSE -1]

\* Java_..._jerasure_1matrix_1decode on the store's devices with the
\* erasure list E, every Get succeeding: jerasure rebuilds the erased
\* copies (or returns -1 and writes nothing), the data copies and then the
\* coding copies are released, and `result == 0` becomes JNI_TRUE.
matrix_decode(E) ==
  LET r == MatrixDecode(StoreK, StoreM, width, StoreMatrix, E, devices)
  IN  [devices |-> FreeArrayOfByteArrays(FreeArrayOfByteArrays(devices, r.devices, DataIds),
                                         r.devices, CodingIds),
       result  |-> IF r.ok THEN 0 ELSE -1]

\* The data a reader recovers from the store: what matrix_decode rebuilds
\* from the surviving devices, or Gone when it reports -1.
Gone == [gone |-> TRUE]

RecoveredData(w, E, devs) ==
  LET r == MatrixDecode(StoreK, StoreM, w, cauchy_original_coding_matrix(StoreK, StoreM, w), E, devs)
  IN  IF r.ok THEN [i \in 0..(StoreK - 1) |-> r.devices[i]] ELSE Gone

\* readback is derived: each step sets it from the state it leads to.
ReadBack == readback' = RecoveredData(width', erased', devices')

Init ==
  /\ width \in Widths /\ x1 \in Field(width) /\ x2 = 0
  /\ devices = matrix_encode([d \in DataIds \cup CodingIds |-> IF d = 0 THEN x1 ELSE 0])
  /\ erased = {}
  /\ readback = RecoveredData(width, erased, devices)

\* The next second argument, wrapping around after the last; the caller
\* writes it into the store's data devices and calls matrix_encode, which
\* overwrites every coding device, lost ones included.
NextArgs ==
  /\ x2' = (x2 + 1) % 2^width
  /\ devices' = matrix_encode([devices EXCEPT ![0] = x1, ![1] = x2'])
  /\ erased' = {}
  /\ UNCHANGED <<width, x1>>
  /\ ReadBack

\* The widths whose every store state is enumerated.
CodeWidth == 4

\* A device of the store fails; what it holds is garbage from now on.
LoseDevice ==
  /\ width <= CodeWidth
  /\ \E d \in DOMAIN devices \ erased :
       /\ devices' = [devices EXCEPT ![d] = @ ^^ 1]
       /\ erased' = erased \cup {d}
  /\ UNCHANGED <<width, x1, x2>>
  /\ ReadBack

\* The caller passes the lost devices to matrix_decode and, on JNI_TRUE,
\* takes the store to be whole again; on JNI_FALSE nothing changes.
Repair ==
  LET call == matrix_decode(erased) IN
  /\ erased # {}
  /\ devices' = call.devices
  /\ erased' = IF call.result = 0 THEN {} ELSE erased
  /\ UNCHANGED <<width, x1, x2>>
  /\ ReadBack

Next == NextArgs \/ LoseDevice \/ Repair

Spec == Init /\ [][Next]_vars

\* Every multiplication the binding exposes computes the field product:
\* galois_single_multiply, galois_logtable_multiply,
\* galois_multtable_multiply, galois_shift_multiply, and for w = 8
\* galois_split_w8_multiply, agree with polynomial multiplication modulo
\* the primitive polynomial; and adding the logs returned by galois_log
\* and mapping back with galois_ilog gives the same product.  JCauchy's
\* cauchy_n_ones counts the ones of the bitmatrix of multiplication by x1.
MultiplyAgrees ==
  LET p == RefMultiply(x1, x2, width) IN
  /\ galois_single_multiply(x1, x2, width) = p
  /\ galois_logtable_multiply(x1, x2, width) = p
  /\ galois_multtable_multiply(x1, x2, width) = p
  /\ galois_shift_multiply(x1, x2, width) = p
  /\ width = 8 => galois_split_w8_multiply(x1, x2) = p
  /\ x2 = 0 => cauchy_n_ones(x1, width) = RefBitmatrixOnes(x1, 0, width)
  /\ x1 # 0 /\ x2 # 0 =>
       galois_ilog((galois_log(x1, width) + galois_log(x2, width)) % (2^width - 1), width) = p

\* Every division the binding exposes undoes a multiplication and returns
\* -1 for a zero divisor: galois_single_divide, galois_logtable_divide,
\* galois_multtable_divide and galois_shift_divide; galois_inverse and
\* galois_shift_inverse give the multiplicative inverse, -1 for 0.
DivideUndoesMultiply ==
  LET p == RefMultiply(x1, x2, width)
      divides == {galois_single_divide(p, x2, width), galois_logtable_divide(p, x2, width),
                  galois_multtable_divide(p, x2, width), galois_shift_divide(p, x2, width)}
      inverses == {galois_inverse(x2, width), galois_shift_inverse(x2, width)}
  IN  IF x2 = 0
      THEN divides = {-1} /\ inverses = {-1}
      ELSE divides = {x1} /\ \A i \in inverses : i >= 0 /\ RefMultiply(x2, i, width) = 1

\* The codes checked: k data devices holding x1, x2 (and x1 + x2 for k = 3),
\* m coding devices, for the widths small enough to enumerate.
CodeK     == 2..3
CodeM     == 1..3

CodeData(k) == [i \in 0..(k - 1) |-> CASE i = 0 -> x1 [] i = 1 -> x2 [] OTHER -> x1 ^^ x2]

\* The devices as a decoder finds them: every erased one holds garbage.
Damaged(devs, erasures) ==
  [d \in DOMAIN devs |-> IF d \in erasures THEN devs[d] ^^ 1 ELSE devs[d]]

\* Spec section 8 on the binding's Cauchy matrices: for every k, m, w that
\* cauchy_original_coding_matrix accepts, encoding with the int[] it hands
\* to Java and then erasing any m or fewer devices, matrix_decode restores
\* every device from the survivors alone; more than m erasures are
\* reported unrecoverable.  This holds only if the matrix is MDS, the
\* row-major layout is read back as written, and the inversion pivots
\* past zero entries of the decoding matrix.
DecodeRecovers ==
  width <= CodeWidth /\ erased = {} =>
    \A k \in CodeK, m \in CodeM :
      CauchyOriginalAccepts(k, m, width) =>
        LET matrix  == cauchy_original_coding_matrix(k, m, width)
            encoded == Devices(k, m, width, matrix, CodeData(k))
        IN  \A E \in SUBSET (0..(k + m - 1)) :
              LET r == MatrixDecode(k, m, width, matrix, E, Damaged(encoded, E))
              IN  IF Cardinality(E) <= m THEN r.ok /\ r.devices = encoded ELSE ~r.ok


Store == INSTANCE ErasureStore WITH K <- StoreK, M <- StoreM, Values <- 0..255,
                                    Gone <- Gone, data <- readback, lost <- erased

\* The store built from the binding's Cauchy matrix, matrix_encode and
\* matrix_decode keeps the promise of an erasure code (ErasureStore): in
\* any order of device losses, writes and repairs, the data a reader
\* recovers never changes while at most m devices are lost, a repair
\* rebuilds every device (data and coding) so that later losses are
\* survived again, and past m losses the data is reported gone.
StoreRefinesErasureStore == Store!Spec
=============================================================================
