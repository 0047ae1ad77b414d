---------------------------- MODULE GaloisField ----------------------------
(***************************************************************************)
(* GF(2^w) arithmetic behind the single-value methods of                   *)
(* src/jerasure/jni/JGalois.cpp.  Each JNI method passes its arguments to  *)
(* one jerasure routine and returns its result, converting only the table *)
(* builders' 0 / -1 status to a jboolean.                                  *)
(*                                                                         *)
(* jerasure is not in this repository.  The routines are modelled from the *)
(* specification (section 4): addition is XOR, a product is the product of *)
(* polynomials over GF(2) reduced by the primitive polynomial of w,        *)
(* doubling is a shift and a conditional XOR with that polynomial, and     *)
(* products are taken from log/antilog tables, from full multiplication    *)
(* tables, by shift-and-add, or (w = 8) from 4-bit split tables.           *)
(***************************************************************************)
EXTENDS Naturals, Integers, Bitwise

CONSTANT Widths   \* the word sizes w the methods are called with

\* The primitive polynomial of each w, with its x^w term (jerasure's table,
\* in octal: 07, 013, 023, 0435).
PrimPoly == [w \in {2, 3, 4, 8} |-> CASE w = 2 -> 7 [] w = 3 -> 11 [] w = 4 -> 19 [] w = 8 -> 285]

ASSUME Widths \subseteq DOMAIN PrimPoly

Field(w)   == 0..(2^w - 1)
NonZero(w) == 1..(2^w - 1)

(***************************************************************************)
(* The reference: carry-less product, then reduction modulo PrimPoly[w].   *)
(***************************************************************************)
RECURSIVE ClMul(_, _)
ClMul(a, b) ==
  IF b = 0 THEN 0 ELSE (IF b % 2 = 1 THEN a ELSE 0) ^^ ClMul(2 * a, b \div 2)

RECURSIVE Degree(_)
Degree(p) == IF p <= 1 THEN 0 ELSE 1 + Degree(p \div 2)

RECURSIVE Reduce(_, _)
Reduce(p, w) ==
  IF p < 2^w THEN p ELSE Reduce(p ^^ (PrimPoly[w] * 2^(Degree(p) - w)), w)

RefMultiply(a, b, w) == Reduce(ClMul(a, b), w)

RECURSIVE Ones(_)
Ones(x) == IF x = 0 THEN 0 ELSE (x % 2) + Ones(x \div 2)

\* The ones of the w x w bitmatrix of multiplication by n: column i is the
\* bit vector of n * x^i (spec section 5).
RECURSIVE RefBitmatrixOnes(_, _, _)
RefBitmatrixOnes(n, i, w) ==
  IF i = w THEN 0 ELSE Ones(RefMultiply(n, 2^i, w)) + RefBitmatrixOnes(n, i + 1, w)

(***************************************************************************)
(* jerasure's routines (spec section 4).                                   *)
(***************************************************************************)
\* Multiplication by 2: shift left, XOR the polynomial on overflow.
Times2(x, w) == IF 2 * x >= 2^w THEN (2 * x) ^^ PrimPoly[w] ELSE 2 * x

RECURSIVE PowerOf2(_, _)
PowerOf2(i, w) == IF i = 0 THEN 1 ELSE Times2(PowerOf2(i - 1, w), w)

\* galois_create_log_tables: the antilog table x^i and its inverse.
ILogTables == [w \in Widths |-> [i \in 0..(2^w - 2) |-> PowerOf2(i, w)]]
LogTables  == [w \in Widths |->
                [v \in NonZero(w) |-> CHOOSE i \in 0..(2^w - 2) : ILogTables[w][i] = v]]

LogtableMultiply(x, y, w) ==
  IF x = 0 \/ y = 0 THEN 0
  ELSE ILogTables[w][(LogTables[w][x] + LogTables[w][y]) % (2^w - 1)]

\* Division by 0 returns -1.
LogtableDivide(x, y, w) ==
  CASE y = 0 -> -1
    [] x = 0 -> 0
    [] OTHER -> ILogTables[w][(LogTables[w][x] - LogTables[w][y] + 2^w - 1) % (2^w - 1)]

\* galois_create_mult_tables: every product and quotient, from the logs.
MultTables == [w \in Widths |-> [p \in Field(w) \X Field(w) |->
                                   LogtableMultiply(p[1], p[2], w)]]
DivTables  == [w \in Widths |-> [p \in Field(w) \X Field(w) |->
                                   LogtableDivide(p[1], p[2], w)]]

\* Shift-and-add: add x * 2^i for every bit i of y.
RECURSIVE ShiftMultiply(_, _, _)
ShiftMultiply(x, y, w) ==
  IF y = 0 THEN 0
  ELSE (IF y % 2 = 1 THEN x ELSE 0) ^^ ShiftMultiply(Times2(x, w), y \div 2, w)

\* The inverse by the shift routines, and division as multiplication by it.
ShiftInverses == [w \in Widths |->
                   [y \in NonZero(w) |-> CHOOSE z \in NonZero(w) : ShiftMultiply(y, z, w) = 1]]
ShiftInverse(y, w) == IF y = 0 THEN -1 ELSE ShiftInverses[w][y]

ShiftDivide(x, y, w) ==
  CASE y = 0 -> -1
    [] x = 0 -> 0
    [] OTHER -> ShiftMultiply(x, ShiftInverse(y, w), w)

\* galois_split_w8_multiply: the four products of 4-bit halves, XORed.
Nibble(x, i) == (x \div 16^i) % 16

SplitW8Multiply(x, y) ==
  LET part(i, j) == LogtableMultiply(Nibble(x, i) * 16^i, Nibble(y, j) * 16^j, 8)
  IN  (part(0, 0) ^^ part(0, 1)) ^^ (part(1, 0) ^^ part(1, 1))

\* galois_single_multiply / divide choose one of the table strategies for w;
\* for the widths modelled they are the table ones.
SingleMultiply(x, y, w) == MultTables[w][<<x, y>>]
SingleDivide(x, y, w)   == DivTables[w][<<x, y>>]
Inverse(y, w)           == SingleDivide(1, y, w)

\* cauchy_n_ones: the ones of the columns n, 2n, 4n, ... obtained by
\* doubling.
CauchyNOnes(n, w) ==
  LET RECURSIVE Columns(_, _)
      Columns(c, i) == IF i = w THEN 0 ELSE Ones(c) + Columns(Times2(c, w), i + 1)
  IN  Columns(n, 0)

\* The table builders return 0, or -1 when w is out of range or malloc
\* fails (`ok`).
CreateTablesResult(ok) == IF ok THEN 0 ELSE -1

(***************************************************************************)
(* The JNI methods of JGalois.cpp, and cauchy_n_ones of JCauchy.cpp.      *)
(***************************************************************************)
\* Mutant: the quotient taken with the operands swapped.
galois_single_divide_swapped(a, b, w) == SingleDivide(b, a, w)

\* Mutant: a copy of the multtable method left calling the log tables'
\* divide.
galois_multtable_multiply_divides(x, y, w) == DivTables[w][<<x, y>>]

\* Mutant: the arguments passed to jerasure in the wrong order.
cauchy_n_ones_swapped(jn, jw) == CauchyNOnes(jw, jn)

cauchy_n_ones(jn, jw)              == CauchyNOnes(jn, jw)
galois_single_multiply(a, b, w)    == SingleMultiply(a, b, w)
galois_single_divide(a, b, w)      == SingleDivide(a, b, w)
galois_log(value, w)               == LogTables[w][value]
galois_ilog(value, w)              == ILogTables[w][value]
galois_create_log_tables(ok)       == CreateTablesResult(ok) = 0
galois_logtable_multiply(x, y, w)  == LogtableMultiply(x, y, w)
galois_logtable_divide(x, y, w)    == LogtableDivide(x, y, w)
galois_create_mult_tables(ok)      == CreateTablesResult(ok) = 0
galois_multtable_multiply(x, y, w) == MultTables[w][<<x, y>>]
galois_multtable_divide(x, y, w)   == DivTables[w][<<x, y>>]
galois_shift_multiply(x, y, w)     == ShiftMultiply(x, y, w)
galois_shift_divide(x, y, w)       == ShiftDivide(x, y, w)
galois_create_split_w8_tables(ok)  == CreateTablesResult(ok) = 0
galois_split_w8_multiply(x, y)     == SplitW8Multiply(x, y)
galois_inverse(x, w)               == Inverse(x, w)
galois_shift_inverse(y, w)         == ShiftInverse(y, w)
=============================================================================
