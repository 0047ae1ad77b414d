\* Two Java threads building coding matrices with JCauchy and JLiberation
\* and encoding with them; the JVM always copies an array.
CONSTANTS
  Threads    = {t1, t2}
  IntArrays  = {i1, i2}
  ByteArrays = {b1, b2, b3}
  BoolArrays = {z1}
  K = 2
  M = 1
  MaxGen = 2
  WordSizes = {1, 2}
  GetMayFail = FALSE
  NewMayFail = TRUE
  NULL = NULL
  Methods <- BuilderMethods
SPECIFICATION Spec
INVARIANTS NoPinLeak
\* The process stops only when the JVM has crashed.
CHECK_DEADLOCK FALSE
SYMMETRY Symmetry
