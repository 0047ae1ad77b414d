---------------------------- MODULE ErasureCode ----------------------------
(***************************************************************************)
(* The contents side of the matrix methods: the coding matrix a builder     *)
(* hands to Java, the coding devices matrix_encode computes from it, and    *)
(* the data matrix_decode recovers from the devices that survive.          *)
(*                                                                         *)
(* The binding's part (JCauchy.cpp, JJerasure.cpp) is the guard on the      *)
(* arguments and the layout of the matrix in the Java int[]: jerasure's     *)
(* m x k matrix row by row, k * m ints copied by SetIntArrayRegion, read    *)
(* back by jerasure as matrix[i * k + j].  jerasure's builders, encoder,    *)
(* decoder and Gauss-Jordan inverter are not in this repository; they are  *)
(* modelled from the specification (sections 4.2, 4.4 to 4.6).  Device ids  *)
(* are 0-based as in C: data 0..k-1, coding k..k+m-1.                      *)
(***************************************************************************)
EXTENDS GaloisField, FiniteSets, Sequences

\* XOR of the values f[0], ..., f[n-1]: field addition.
RECURSIVE XorSum(_, _)
XorSum(f, n) == IF n = 0 THEN 0 ELSE f[n - 1] ^^ XorSum(f, n - 1)

(***************************************************************************)
(* jerasure's cauchy_original_coding_matrix: X = {0..m-1}, Y = {m..m+k-1}, *)
(* entry (i, j) the inverse of X[i] + Y[j] (spec section 4.2).             *)
(***************************************************************************)
CauchyOriginalMatrix(k, m, w) ==
  [i \in 0..(m - 1) |-> [j \in 0..(k - 1) |-> SingleDivide(1, i ^^ (m + j), w)]]

\* The binding's own check before it calls jerasure (JCauchy.cpp:18).
CauchyOriginalAccepts(k, m, w) == ~(w < 31 /\ k + m > 2^w)

\* What Java receives: NULL for rejected arguments, else the k * m entries
\* row by row (NewIntArray(k*m), SetIntArrayRegion(result, 0, k*m, matrix)).
cauchy_original_coding_matrix(k, m, w) ==
  IF ~CauchyOriginalAccepts(k, m, w) THEN "NULL"
  ELSE LET mat == CauchyOriginalMatrix(k, m, w)
       IN  [n \in 0..(k * m - 1) |-> mat[n \div k][n % k]]

(***************************************************************************)
(* Encoding (spec 4.4, field-matrix path): coding device i is the XOR of   *)
(* the products of row i of the Java matrix with the data devices.  One    *)
(* field element stands for a device's content.                            *)
(***************************************************************************)
MatrixEncode(k, m, w, matrix, data) ==
  [i \in 0..(m - 1) |->
     XorSum([j \in 0..(k - 1) |-> SingleMultiply(matrix[i * k + j], data[j], w)], k)]

\* The devices after an encode: data, then coding.
Devices(k, m, w, matrix, data) ==
  LET coding == MatrixEncode(k, m, w, matrix, data)
  IN  [d \in 0..(k + m - 1) |-> IF d < k THEN data[d] ELSE coding[d - k]]

(***************************************************************************)
(* Gauss-Jordan inversion over GF(2^w) (spec 4.6): for each column pick a  *)
(* row at or below the diagonal with a nonzero entry, swap it up, scale it *)
(* by the inverse of the pivot and eliminate the column from every other   *)
(* row, applying the same row operations to the identity; `ok` is FALSE   *)
(* when a column has no pivot.  Matrices are functions 0..n-1 -> rows.     *)
(***************************************************************************)
Identity(n) == [i \in 0..(n - 1) |-> [j \in 0..(n - 1) |-> IF i = j THEN 1 ELSE 0]]

Swap(A, r, s) == [A EXCEPT ![r] = A[s], ![s] = A[r]]
Scale(row, c, w) == [j \in DOMAIN row |-> SingleMultiply(c, row[j], w)]
AddRow(row, c, piv, w) == [j \in DOMAIN row |-> row[j] ^^ SingleMultiply(c, piv[j], w)]

\* Column c of A (and B with it) once row c holds the pivot.
Eliminate(A, B, c, n, w) ==
  LET s  == SingleDivide(1, A[c][c], w)
      A1 == [A EXCEPT ![c] = Scale(A[c], s, w)]
      B1 == [B EXCEPT ![c] = Scale(B[c], s, w)]
  IN  <<[i \in 0..(n - 1) |-> IF i = c THEN A1[c] ELSE AddRow(A1[i], A1[i][c], A1[c], w)],
        [i \in 0..(n - 1) |-> IF i = c THEN B1[c] ELSE AddRow(B1[i], A1[i][c], B1[c], w)]>>

RECURSIVE GaussJordanNoSwap(_, _, _, _, _)
\* Mutant: the pivot is taken on the diagonal without looking further down.
GaussJordanNoSwap(A, B, c, n, w) ==
  IF c = n THEN [ok |-> TRUE, inv |-> B]
  ELSE IF A[c][c] = 0 THEN [ok |-> FALSE, inv |-> B]
  ELSE LET AB == Eliminate(A, B, c, n, w) IN GaussJordanNoSwap(AB[1], AB[2], c + 1, n, w)

RECURSIVE GaussJordan(_, _, _, _, _)
GaussJordan(A, B, c, n, w) ==
  IF c = n THEN [ok |-> TRUE, inv |-> B]
  ELSE LET rows == {r \in c..(n - 1) : A[r][c] # 0} IN
       IF rows = {} THEN [ok |-> FALSE, inv |-> B]
       ELSE LET r  == CHOOSE x \in rows : \A y \in rows : x <= y
                AB == Eliminate(Swap(A, c, r), Swap(B, c, r), c, n, w)
            IN  GaussJordan(AB[1], AB[2], c + 1, n, w)

InvertMatrix(A, n, w) == GaussJordan(A, Identity(n), 0, n, w)

(***************************************************************************)
(* Decoding (spec 4.5): the rows of the first k surviving devices (a unit  *)
(* row for a data device, the matrix row for a coding device) form the     *)
(* decoding matrix; its inverse times the survivors' contents is the data, *)
(* and re-encoding it gives the coding devices.  More than m erasures, or  *)
(* a singular decoding matrix, is unrecoverable (`ok` FALSE).             *)
(***************************************************************************)
RECURSIVE FirstSurvivors(_, _, _)
FirstSurvivors(alive, d, n) ==
  IF n = 0 THEN <<>>
  ELSE IF d \in alive THEN <<d>> \o FirstSurvivors(alive, d + 1, n - 1)
  ELSE FirstSurvivors(alive, d + 1, n)

DeviceRow(k, matrix, d) ==
  [j \in 0..(k - 1) |-> IF d < k THEN (IF j = d THEN 1 ELSE 0) ELSE matrix[(d - k) * k + j]]

MatrixDecode(k, m, w, matrix, erasures, devices) ==
  IF Cardinality(erasures) > m THEN [ok |-> FALSE, devices |-> devices]
  ELSE
    LET surv == FirstSurvivors((0..(k + m - 1)) \ erasures, 0, k)
        inv  == InvertMatrix([i \in 0..(k - 1) |-> DeviceRow(k, matrix, surv[i + 1])], k, w)
    IN  IF ~inv.ok THEN [ok |-> FALSE, devices |-> devices]
        ELSE LET data == [i \in 0..(k - 1) |->
                            XorSum([j \in 0..(k - 1) |->
                                      SingleMultiply(inv.inv[i][j], devices[surv[j + 1]], w)], k)]
             IN  [ok |-> TRUE, devices |-> Devices(k, m, w, matrix, data)]
=============================================================================
