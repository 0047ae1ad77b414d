\* Two Java threads preparing decodes (erased vectors, decoding matrices,
\* bitmatrices) next to an encoder; the JVM always copies an array.
CONSTANTS
  Threads    = {t1, t2}
  IntArrays  = {i1, i2, i3}
  ByteArrays = {b1, b2}
  BoolArrays = {z1}
  K = 1
  M = 1
  MaxGen = 2
  WordSizes = {1, 2}
  GetMayFail = FALSE
  NewMayFail = TRUE
  NULL = NULL
  Methods <- DecodingSetupMethods
SPECIFICATION Spec
INVARIANTS NoPinLeak CallOutcomeReported
\* The process stops only when the JVM has crashed.
CHECK_DEADLOCK FALSE
SYMMETRY Symmetry
