\* One Java thread building a Reed-Solomon Vandermonde matrix for k = 2
\* data and m = 1 coding devices over GF(2^2), which has room for both.
CONSTANTS
  Threads    = {t1}
  IntArrays  = {i1}
  ByteArrays = {b1}
  BoolArrays = {z1}
  K = 2
  M = 1
  MaxGen = 2
  WordSizes = {2}
  GetMayFail = FALSE
  NewMayFail = FALSE
  NULL = NULL
  Methods <- VandermondeOnly
SPECIFICATION Spec
INVARIANT VandermondeArgsAccepted
\* The process stops only when the JVM has crashed.
CHECK_DEADLOCK FALSE
